---- MODULE Spec2Model ----
(***************************************************************************)
(* The approval and notification workflows of the internship portal:       *)
(* intern registration, login, approve-user / reject-user, the complaint,  *)
(* leave-request and project submissions, and the broadcast message.       *)
(*                                                                         *)
(* The store is PostgreSQL reached through node-pg.  A request handler is  *)
(* an async function: it runs without interruption between two awaits, so  *)
(* every database round trip and every mail send is one step.  Statements  *)
(* issued between BEGIN and COMMIT on a checked-out client belong to that  *)
(* client's transaction; pool.query statements commit on their own.        *)
(***************************************************************************)
EXTENDS Integers, Sequences, FiniteSets, TLC

\* ------------------------------------------------------------------ bounds
MaxUsers == 2          \* values the users.user_id serial may hand out
NumAdmins == 2         \* rows of the admins table
MaxConc == 2           \* request slots (requests that may be in flight at once)
MaxSubs == 1           \* values each submission table's id serial may hand out
MaxMsgs == 2           \* values the messages.id serial may hand out
MaxDay == 2            \* the days a leave request may start or end on
MaxLogbooks == 2       \* values the logbook_reports.logbook_id serial may hand out
MaxRows == 2           \* rows a listed table starts with

\* ------------------------------------------------------------ value spaces
AdminIds == 1..NumAdmins
UserIds == 1..MaxUsers
Slots == 1..MaxConc
SeqSlot == CHOOSE r \in Slots : \A s \in Slots : r <= s   \* requests one at a time
Clients == {"c1"}                       \* browser cookies (session ids)
AdminEmails == {"a1@x", "a2@x"}
Emails == {"a1@x", "i@x"}                \* e-mail addresses interns register with
Matrics == {"m1", "m2"}
Passwords == {"secret1", "secret2"}
ShortPw == "abc"
Missing == ""                           \* an absent / empty form field
NULL == "NULL"
Reasons == {NULL, "incomplete"}

VARIABLES
    users,          \* committed rows of table users: user_id -> row
    admins,         \* committed rows of table admins: admin_id -> row
    nextUserId,     \* the users.user_id serial
    notifications,  \* committed rows of table notifications
    sessions,       \* the session store: cookie -> req.session.user
    outcomeMail,    \* approval / rejection mails attempted, per intern
    subs,           \* committed rows of complaints_suggestions, leave_requests, user_projects
    nextSubId,      \* the id serial of each of those tables
    messages,       \* committed rows of table messages
    nextMsgId,      \* the messages.id serial
    logbook_reports,         \* committed rows of table logbook_reports: logbook_id -> row
    nextLogbookId,           \* the logbook_reports.logbook_id serial
    leave_requests,          \* review columns of table leave_requests: permission_id -> row
    complaints_suggestions,  \* review columns of complaints_suggestions: complaints_id -> row
    password_reset_tokens,   \* rows of table password_reset_tokens: token -> row
    nextToken,               \* the next uuidv4() token
    req             \* the request handlers in flight, one per slot

vars == <<users, admins, nextUserId, notifications, sessions, outcomeMail,
          subs, nextSubId, messages, nextMsgId,
          logbook_reports, nextLogbookId, leave_requests, complaints_suggestions,
          password_reset_tokens, nextToken, req>>
dbvars == <<users, admins, nextUserId, notifications>>
revvars == <<logbook_reports, nextLogbookId, leave_requests, complaints_suggestions>>
subvars == <<subs, nextSubId, messages, nextMsgId, revvars>>
tokvars == <<password_reset_tokens, nextToken>>

\* ------------------------------------------------------- password hashing
\* bcrypt.hash(password, 10): a '$2b$' string from which no password is read back
Hash(pw) == <<"$2b$", pw>>
\* mutant: every stored password is taken for a bcrypt hash
StartsWith2bAlways(h) == TRUE
\* String.prototype.startsWith('$2b$') on the stored hash
StartsWith2b(h) == h[1] = "$2b$"
\* bcrypt.compare(plain, hash)
Compare(pw, h) == h[2] = pw

\* ------------------------------------------------------------------- rows
NoSession == [user_id |-> 0, email |-> Missing, role |-> "none"]
NoWrite == [kind |-> "none", id |-> 0]
NoRow == [found |-> FALSE]

AdminEmail(a) == IF a = 1 THEN "a1@x" ELSE "a2@x"
AdminRole(a) == IF a = 1 THEN "superadmin" ELSE "admin"
AdminRow(a) == [email |-> AdminEmail(a), password |-> Hash("secret1"), role |-> AdminRole(a)]

\* the row INSERT INTO users (...) VALUES (..., FALSE, 'pending', NOW()) creates
NewUserRow(email, matric, hashed) ==
    [email |-> email, matric_number |-> matric, password |-> hashed,
     is_approved |-> FALSE, approval_status |-> "pending",
     approved_by |-> 0, rejection_reason |-> NULL]

\* what a paginated list request computed and answered
NoList == [page |-> 0, limit |-> 0, offset |-> 0, rows |-> 0,
           total_count |-> 0, total_pages |-> 0]

IdleReq ==
    [op |-> "none", pc |-> "idle", client |-> "c1", session |-> NoSession,
     userId |-> 0, email |-> Missing, matric |-> Missing, password |-> Missing,
     reason |-> NULL, deleteUser |-> FALSE,
     hasClient |-> FALSE, tx |-> "none", committed |-> FALSE, threw |-> FALSE,
     wUser |-> NoWrite, wNotifs |-> {}, row |-> NoRow, pre |-> NoRow,
     mailTried |-> 0, mailFailed |-> FALSE, mailed |-> {},
     wSub |-> NoWrite, subId |-> 0, todo |-> {}, errcode |-> "none",
     fanout |-> "none", nfail |-> {}, startDate |-> 0, endDate |-> 0,
     weekDate |-> 0, newStatus |-> NULL, grade |-> NULL, notified |-> FALSE,
     list |-> NoList, given |-> FALSE, inWindow |-> FALSE, token |-> 0,
     status |-> 0, body |-> "none"]

SubmitOps == {"complaint", "leave", "project"}

\* ------------------------------------------------------ handler plumbing
Idle(r) == req[r].pc \in {"idle", "done"}
At(r, op, pc) == req[r].op = op /\ req[r].pc = pc
Upd(r, q) == req' = [req EXCEPT ![r] = q]

\* the clients checked out of the pool: requests between pool.connect() and the
\* client.release() of their finally block
CheckedOut == {r \in Slots : req[r].hasClient}
\* new Pool({...}): the pool hands out at most max clients (as many here as there
\* are request slots).  No connectionTimeoutMillis is set, so pool.connect() and
\* pool.query() wait, without limit, until a client is free.
PoolSize == MaxConc
PoolFree == Cardinality(CheckedOut) < PoolSize

\* mutant: the response is sent and the client is not released
FinishNoRelease(q, status, body) ==
    [q EXCEPT !.status = status, !.body = body, !.pc = "done",
              !.tx = "none", !.wUser = NoWrite, !.wNotifs = {}, !.wSub = NoWrite,
              !.todo = {},
              !.password = Missing, !.matric = Missing, !.session = NoSession]

\* res.status(s).json(...) followed by the handler's finally { client.release() }
Finish(q, status, body) ==
    [q EXCEPT !.status = status, !.body = body, !.pc = "done", !.hasClient = FALSE,
              !.tx = "none", !.wUser = NoWrite, !.wNotifs = {}, !.wSub = NoWrite,
              !.todo = {},
              !.password = Missing, !.matric = Missing, !.session = NoSession]

\* an awaited call rejects: control moves to the handler's catch block.  A statement
\* that fails inside a transaction block leaves the transaction aborted.
Throw(q) ==
    [q EXCEPT !.pc = "catch", !.threw = TRUE,
              !.tx = IF @ = "open" THEN "aborted" ELSE @]

\* a statement fails but the error is caught by a helper's own try/catch: the
\* handler goes on, the transaction (if one is open) is aborted all the same
Swallow(q, next) ==
    [q EXCEPT !.pc = next, !.tx = IF @ = "open" THEN "aborted" ELSE @]

\* pool.connect(): a client is checked out, or the call rejects with client undefined
Connected(q, ok, next) ==
    IF ok THEN [q EXCEPT !.hasClient = TRUE, !.pc = next] ELSE Throw(q)

\* client.query('BEGIN')
Begun(q, ok, next) ==
    IF ok THEN [q EXCEPT !.tx = "open", !.pc = next] ELSE Throw(q)

\* catch (error) { if (client) await client.query('ROLLBACK'); res.status(500)... }
\* finally { if (client) client.release() }.  A ROLLBACK that rejects in turn leaves
\* the catch block before the response is written.
CatchRollback(q, ok, body) ==
    IF q.hasClient /\ ~ok
    THEN Finish(q, 0, "no_response")
    ELSE Finish(q, 500, body)

\* what a table holds once a transaction's pending write is applied
ApplyUserWrite(tbl, w) ==
    CASE w.kind = "put" ->
            [i \in DOMAIN tbl \cup {w.id} |-> IF i = w.id THEN w.row ELSE tbl[i]]
      [] w.kind = "del" -> [i \in DOMAIN tbl \ {w.id} |-> tbl[i]]
      [] OTHER -> tbl

\* the rows of users a statement of slot r sees: READ COMMITTED plus its own write
ViewUsers(r) == ApplyUserWrite(users, req[r].wUser)

\* a row another open transaction has written and not yet committed is locked
RowLocked(r, u) ==
    \E s \in Slots \ {r} : req[s].wUser.kind # "none" /\ req[s].wUser.id = u

\* ------------------------------------------------------------ registration
MinPasswordLen == 6

\* the three validation returns at the head of POST /register
RegisterValidation(email, matric, password, confirm) ==
    IF email = Missing \/ matric = Missing \/ password = Missing \/ confirm = Missing
    THEN "All required fields must be filled."
    ELSE IF password # confirm THEN "Passwords do not match!"
    ELSE IF Len(password) < MinPasswordLen THEN "Password should be at least 6 characters."
    ELSE "ok"

\* mutant: the duplicate check looks at the e-mail only
ExistingUserByEmail(tbl, email, matric) == {i \in DOMAIN tbl : tbl[i].email = email}

\* SELECT matric_number FROM users WHERE email = $1 OR matric_number = $2
ExistingUser(tbl, email, matric) ==
    {i \in DOMAIN tbl : tbl[i].email = email \/ tbl[i].matric_number = matric}

\* the row notifyAdminsOfNewRegistrationInApp inserts for one admin
RegistrationNotification(a, uid) ==
    [recipient_id |-> a, recipient_role |-> "admin", sender_id |-> uid,
     kind |-> "registration", section |-> NULL, entity_id |-> 0, link_id |-> uid,
     is_read |-> FALSE, about |-> uid]

RegisterBegin(r, email, matric, password, confirm) ==
    /\ Idle(r)
    /\ nextUserId <= MaxUsers
    /\ LET v == RegisterValidation(email, matric, password, confirm)
           q == [IdleReq EXCEPT !.op = "register", !.email = email, !.matric = matric,
                                !.password = password]
       IN Upd(r, IF v = "ok" THEN [q EXCEPT !.pc = "connect"] ELSE Finish(q, 400, v))
    /\ UNCHANGED <<tokvars, dbvars, subvars, sessions, outcomeMail>>

\* bcrypt.hash(password, 10); client = await pool.connect()
RegisterConnect(r) ==
    /\ At(r, "register", "connect")
    /\ \E ok \in BOOLEAN : Upd(r, Connected(req[r], ok, "begin"))
    /\ UNCHANGED <<tokvars, dbvars, subvars, sessions, outcomeMail>>

RegisterBeginTx(r) ==
    /\ At(r, "register", "begin")
    /\ \E ok \in BOOLEAN : Upd(r, Begun(req[r], ok, "check"))
    /\ UNCHANGED <<tokvars, dbvars, subvars, sessions, outcomeMail>>

\* the duplicate check, and on a hit ROLLBACK and the 409
RegisterCheck(r) ==
    /\ At(r, "register", "check")
    /\ \E ok \in BOOLEAN :
         Upd(r, IF ~ok THEN Throw(req[r])
                ELSE IF ExistingUser(ViewUsers(r), req[r].email, req[r].matric) # {}
                THEN Finish(req[r], 409, "Email or Matric Number already registered.")
                ELSE [req[r] EXCEPT !.pc = "insert"])
    /\ UNCHANGED <<tokvars, dbvars, subvars, sessions, outcomeMail>>

\* INSERT INTO users ... RETURNING user_id, inside the transaction
RegisterInsert(r) ==
    /\ At(r, "register", "insert")
    /\ \E ok \in BOOLEAN :
         IF ok
         THEN /\ Upd(r, [req[r] EXCEPT
                    !.pc = "mail", !.userId = nextUserId,
                    !.wUser = [kind |-> "put", id |-> nextUserId,
                               row |-> NewUserRow(req[r].email, req[r].matric,
                                                  Hash(req[r].password))]])
              /\ nextUserId' = nextUserId + 1
         ELSE /\ Upd(r, Throw(req[r]))
              /\ UNCHANGED nextUserId
    /\ UNCHANGED <<tokvars, users, admins, notifications, subvars, sessions, outcomeMail>>

\* notifyAdminsOfNewRegistration: SELECT email FROM admins on the transaction's
\* client, then sendNewRegistrationNotification mails each admin in turn; a failed
\* send is logged and the loop goes on; a failed SELECT is caught and logged.
RegisterMail(r) ==
    /\ At(r, "register", "mail")
    /\ \/ Upd(r, Swallow(req[r], "inapp"))
       \/ \E sent \in SUBSET DOMAIN admins :
            Upd(r, [req[r] EXCEPT !.pc = "inapp", !.mailed = sent])
    /\ UNCHANGED <<tokvars, dbvars, subvars, sessions, outcomeMail>>

\* notifyAdminsOfNewRegistrationInApp: SELECT admin_id FROM admins, then one INSERT
\* INTO notifications per admin, all on the transaction's client, awaited together
\* under one try/catch.  In an aborted transaction every statement fails.
RegisterInApp(r) ==
    /\ At(r, "register", "inapp")
    /\ \/ Upd(r, Swallow(req[r], "commit"))
       \/ /\ req[r].tx = "open"
          /\ Upd(r, [req[r] EXCEPT
                !.pc = "commit",
                !.wNotifs = {RegistrationNotification(a, req[r].userId) : a \in DOMAIN admins}])
    /\ UNCHANGED <<tokvars, dbvars, subvars, sessions, outcomeMail>>

\* client.query('COMMIT') and the 201.  COMMIT of an aborted transaction is answered
\* by the server with ROLLBACK and no error: nothing is written and the handler goes on.
RegisterCommit(r) ==
    /\ At(r, "register", "commit")
    /\ \E ok \in BOOLEAN :
         IF ~ok
         THEN /\ Upd(r, Throw(req[r]))
              /\ UNCHANGED <<users, notifications>>
         ELSE /\ users' = IF req[r].tx = "open" THEN ApplyUserWrite(users, req[r].wUser)
                          ELSE users
              /\ notifications' = IF req[r].tx = "open"
                                  THEN notifications \cup req[r].wNotifs
                                  ELSE notifications
              /\ Upd(r, Finish([req[r] EXCEPT !.committed = (req[r].tx = "open")],
                               201, "Registration successful!"))
    /\ UNCHANGED <<tokvars, admins, nextUserId, subvars, sessions, outcomeMail>>

RegisterCatch(r) ==
    /\ At(r, "register", "catch")
    /\ \E ok \in BOOLEAN :
         Upd(r, CatchRollback(req[r], ok, "Internal server error during registration."))
    /\ UNCHANGED <<tokvars, dbvars, subvars, sessions, outcomeMail>>


\* ------------------------------------------------ approve-user / reject-user
\* isAdminOrSuperadmin(req, res, next)
IsAdminOrSuperadmin(session) == session.role \in {"admin", "superadmin"}

\* mutant: the lookup forgets AND approval_status = 'pending'
PendingUserAnyStatus(tbl, u) == u \in DOMAIN tbl

\* SELECT first_name, last_name, email FROM users
\*  WHERE user_id = $1 AND approval_status = 'pending'
PendingUser(tbl, u) == u \in DOMAIN tbl /\ tbl[u].approval_status = "pending"

\* mutant: the UPDATE sets approval_status and forgets is_approved
ApprovedRowStatusOnly(row, adminId) ==
    [row EXCEPT !.approval_status = "approved", !.approved_by = adminId]

\* UPDATE users SET is_approved = TRUE, approval_status = 'approved',
\*                  approved_by = $1, approved_at = NOW()
ApprovedRow(row, adminId) ==
    [row EXCEPT !.is_approved = TRUE, !.approval_status = "approved",
                !.approved_by = adminId]

\* mutant: the soft rejection records the reason and leaves the status as it is
RejectedRowReasonOnly(row, reason, adminId) ==
    [row EXCEPT !.rejection_reason = reason, !.approved_by = adminId]

\* UPDATE users SET approval_status = 'rejected', rejection_reason = $1,
\*                  approved_by = $2, approved_at = NOW()
RejectedRow(row, reason, adminId) ==
    [row EXCEPT !.approval_status = "rejected", !.rejection_reason = reason,
                !.approved_by = adminId]

\* the write UPDATE / DELETE ... WHERE user_id = u leaves pending in the
\* transaction: it acts on the latest committed version of the row, if there is one
UserWrite(u, kind, row) ==
    IF u \notin DOMAIN users THEN NoWrite
    ELSE IF kind = "del" THEN [kind |-> "del", id |-> u]
    ELSE [kind |-> "put", id |-> u, row |-> row]

\* the snapshot of the target row a request starts from (kept for the properties)
Snapshot(u) == IF u \in DOMAIN users THEN [found |-> TRUE, row |-> users[u]] ELSE NoRow

\* mutant: the outcome mail is sent before COMMIT
MailBeforeCommit == "mail"

\* where the handler goes once UPDATE / DELETE has returned
AfterReviewWrite == "commit"
\* where the handler goes once COMMIT has returned
AfterReviewCommit == "mail"

\* mutant: the mail error is not caught at the call site and reaches the handler's catch
AfterOutcomeMailPropagates(q, ok, body) ==
    IF ok THEN Finish([q EXCEPT !.mailTried = @ + 1], 200, body)
    ELSE [q EXCEPT !.mailTried = @ + 1, !.mailFailed = TRUE, !.pc = "catch", !.threw = TRUE]

\* try { await sendApprovalNotification(...) } catch (emailError) { console.error }
\* and then res.json({ success: true, ... })
AfterOutcomeMail(q, ok, body) ==
    Finish([q EXCEPT !.mailTried = @ + 1, !.mailFailed = ~ok], 200, body)

ApproveBegin(r, c, u) ==
    /\ Idle(r)
    /\ LET q == [IdleReq EXCEPT !.op = "approve", !.client = c, !.session = sessions[c],
                                !.userId = u, !.pre = Snapshot(u)]
       IN Upd(r, IF IsAdminOrSuperadmin(sessions[c])
                 THEN [q EXCEPT !.pc = "connect"]
                 ELSE Finish(q, 403, "Access denied: Admin privileges required."))
    /\ UNCHANGED <<tokvars, dbvars, subvars, sessions, outcomeMail>>

ApproveConnect(r) ==
    /\ At(r, "approve", "connect")
    /\ \E ok \in BOOLEAN : Upd(r, Connected(req[r], ok, "begin"))
    /\ UNCHANGED <<tokvars, dbvars, subvars, sessions, outcomeMail>>

ApproveBeginTx(r) ==
    /\ At(r, "approve", "begin")
    /\ \E ok \in BOOLEAN : Upd(r, Begun(req[r], ok, "select"))
    /\ UNCHANGED <<tokvars, dbvars, subvars, sessions, outcomeMail>>

\* the lookup and, when it returns no row, ROLLBACK and the 404
ApproveSelect(r) ==
    /\ At(r, "approve", "select")
    /\ \E ok \in BOOLEAN :
         Upd(r, IF ~ok THEN Throw(req[r])
                ELSE IF PendingUser(ViewUsers(r), req[r].userId)
                THEN [req[r] EXCEPT !.pc = "write",
                                    !.row = [found |-> TRUE,
                                             email |-> ViewUsers(r)[req[r].userId].email]]
                ELSE Finish(req[r], 404, "User not found or already processed"))
    /\ UNCHANGED <<tokvars, dbvars, subvars, sessions, outcomeMail>>

\* UPDATE users SET ... WHERE user_id = $2: waits while another transaction holds
\* the row, then writes over the version that transaction committed
ApproveUpdate(r) ==
    /\ At(r, "approve", "write")
    /\ ~RowLocked(r, req[r].userId)
    /\ \E ok \in BOOLEAN :
         Upd(r, IF ~ok THEN Throw(req[r])
                ELSE [req[r] EXCEPT
                        !.pc = AfterReviewWrite,
                        !.wUser = UserWrite(req[r].userId, "put",
                                            ApprovedRow(users[req[r].userId],
                                                        req[r].session.user_id))])
    /\ UNCHANGED <<tokvars, dbvars, subvars, sessions, outcomeMail>>

ApproveCommit(r) ==
    /\ At(r, "approve", "commit")
    /\ \E ok \in BOOLEAN :
         IF ok
         THEN /\ users' = ApplyUserWrite(users, req[r].wUser)
              /\ Upd(r, [req[r] EXCEPT !.pc = AfterReviewCommit, !.committed = TRUE,
                                       !.tx = "none", !.wUser = NoWrite])
         ELSE /\ Upd(r, Throw(req[r]))
              /\ UNCHANGED users
    /\ UNCHANGED <<tokvars, admins, nextUserId, notifications, subvars, sessions, outcomeMail>>

\* sendApprovalNotification(user.email, userName, true) and the success response
ApproveMail(r) ==
    /\ At(r, "approve", "mail")
    /\ outcomeMail' = [outcomeMail EXCEPT ![req[r].userId] = @ + 1]
    /\ \E ok \in BOOLEAN : Upd(r, AfterOutcomeMail(req[r], ok, "approved"))
    /\ UNCHANGED <<tokvars, dbvars, subvars, sessions>>

ApproveCatch(r) ==
    /\ At(r, "approve", "catch")
    /\ \E ok \in BOOLEAN : Upd(r, CatchRollback(req[r], ok, "Failed to approve user"))
    /\ UNCHANGED <<tokvars, dbvars, subvars, sessions, outcomeMail>>

RejectBegin(r, c, u, reason, deleteUser) ==
    /\ Idle(r)
    /\ LET q == [IdleReq EXCEPT !.op = "reject", !.client = c, !.session = sessions[c],
                                !.userId = u, !.reason = reason,
                                !.deleteUser = deleteUser, !.pre = Snapshot(u)]
       IN Upd(r, IF IsAdminOrSuperadmin(sessions[c])
                 THEN [q EXCEPT !.pc = "connect"]
                 ELSE Finish(q, 403, "Access denied: Admin privileges required."))
    /\ UNCHANGED <<tokvars, dbvars, subvars, sessions, outcomeMail>>

RejectConnect(r) ==
    /\ At(r, "reject", "connect")
    /\ \E ok \in BOOLEAN : Upd(r, Connected(req[r], ok, "begin"))
    /\ UNCHANGED <<tokvars, dbvars, subvars, sessions, outcomeMail>>

RejectBeginTx(r) ==
    /\ At(r, "reject", "begin")
    /\ \E ok \in BOOLEAN : Upd(r, Begun(req[r], ok, "select"))
    /\ UNCHANGED <<tokvars, dbvars, subvars, sessions, outcomeMail>>

RejectSelect(r) ==
    /\ At(r, "reject", "select")
    /\ \E ok \in BOOLEAN :
         Upd(r, IF ~ok THEN Throw(req[r])
                ELSE IF PendingUser(ViewUsers(r), req[r].userId)
                THEN [req[r] EXCEPT !.pc = "write",
                                    !.row = [found |-> TRUE,
                                             email |-> ViewUsers(r)[req[r].userId].email]]
                ELSE Finish(req[r], 404, "User not found or already processed"))
    /\ UNCHANGED <<tokvars, dbvars, subvars, sessions, outcomeMail>>

\* if (deleteUser) DELETE FROM users WHERE user_id = $1  else  UPDATE users SET ...
RejectWrite(r) ==
    /\ At(r, "reject", "write")
    /\ ~RowLocked(r, req[r].userId)
    /\ \E ok \in BOOLEAN :
         Upd(r, IF ~ok THEN Throw(req[r])
                ELSE [req[r] EXCEPT
                        !.pc = AfterReviewWrite,
                        !.wUser = IF req[r].deleteUser
                                  THEN UserWrite(req[r].userId, "del", NoRow)
                                  ELSE UserWrite(req[r].userId, "put",
                                                 RejectedRow(users[req[r].userId],
                                                             req[r].reason,
                                                             req[r].session.user_id))])
    /\ UNCHANGED <<tokvars, dbvars, subvars, sessions, outcomeMail>>

RejectCommit(r) ==
    /\ At(r, "reject", "commit")
    /\ \E ok \in BOOLEAN :
         IF ok
         THEN /\ users' = ApplyUserWrite(users, req[r].wUser)
              /\ Upd(r, [req[r] EXCEPT !.pc = AfterReviewCommit, !.committed = TRUE,
                                       !.tx = "none", !.wUser = NoWrite])
         ELSE /\ Upd(r, Throw(req[r]))
              /\ UNCHANGED users
    /\ UNCHANGED <<tokvars, admins, nextUserId, notifications, subvars, sessions, outcomeMail>>

\* sendApprovalNotification(user.email, userName, false, reason) and the response
RejectMail(r) ==
    /\ At(r, "reject", "mail")
    /\ outcomeMail' = [outcomeMail EXCEPT ![req[r].userId] = @ + 1]
    /\ \E ok \in BOOLEAN :
         Upd(r, AfterOutcomeMail(req[r], ok,
                                 IF req[r].deleteUser THEN "deleted" ELSE "rejected"))
    /\ UNCHANGED <<tokvars, dbvars, subvars, sessions>>

RejectCatch(r) ==
    /\ At(r, "reject", "catch")
    /\ \E ok \in BOOLEAN : Upd(r, CatchRollback(req[r], ok, "Failed to reject user"))
    /\ UNCHANGED <<tokvars, dbvars, subvars, sessions, outcomeMail>>


\* ------------------------------------------------------------------ login
\* SELECT ... FROM admins WHERE email = $1  /  SELECT ... FROM users WHERE email = $1
ByEmail(tbl, email) == {i \in DOMAIN tbl : tbl[i].email = email}

\* mutant: the approval gate is dropped from login
InternMayLoginAlways(intern) == TRUE

\* if (!intern.is_approved || intern.approval_status !== 'approved') return 403
InternMayLogin(intern) == intern.is_approved /\ intern.approval_status = "approved"

\* mutant: login answers without storing the principal in the session
SessionUserDropped(id, email, role) == NoSession

\* req.session.user = { user_id, email, role, ... }
SessionUser(id, email, role) == [user_id |-> id, email |-> email, role |-> role]

LoginBegin(r, c, email, passwords) ==
    /\ Idle(r)
    /\ LET q == [IdleReq EXCEPT !.op = "login", !.client = c, !.session = sessions[c],
                                !.email = email, !.password = passwords]
       IN Upd(r, IF email = Missing \/ passwords = Missing
                 THEN Finish(q, 400, "Email and password are required.")
                 ELSE [q EXCEPT !.pc = "connect"])
    /\ UNCHANGED <<tokvars, dbvars, subvars, sessions, outcomeMail>>

\* client = await pool.connect(); the catch block answers 500 without a round trip
LoginConnect(r) ==
    /\ At(r, "login", "connect")
    /\ \E ok \in BOOLEAN :
         Upd(r, IF ok THEN Connected(req[r], TRUE, "admin")
                ELSE Finish(Throw(req[r]), 500, "Internal server error during login."))
    /\ UNCHANGED <<tokvars, dbvars, subvars, sessions, outcomeMail>>

\* the admins lookup; on a verifying password the session is stored and 200 sent
LoginAdminQuery(r) ==
    /\ At(r, "login", "admin")
    /\ \E ok \in BOOLEAN :
         LET found == ByEmail(admins, req[r].email)
             a == CHOOSE i \in found : TRUE
         IN IF ~ok
            THEN /\ Upd(r, Finish(Throw(req[r]), 500, "Internal server error during login."))
                 /\ UNCHANGED sessions
            ELSE IF found = {}
            THEN /\ Upd(r, [req[r] EXCEPT !.pc = "intern"])
                 /\ UNCHANGED sessions
            ELSE IF ~StartsWith2b(admins[a].password)
            THEN /\ Upd(r, Finish(req[r], 403, "Admin password hash is invalid. Contact support."))
                 /\ UNCHANGED sessions
            ELSE IF Compare(req[r].password, admins[a].password)
            THEN /\ sessions' = [sessions EXCEPT ![req[r].client] =
                                    SessionUser(a, admins[a].email, admins[a].role)]
                 /\ Upd(r, Finish([req[r] EXCEPT !.userId = a], 200, admins[a].role))
            ELSE /\ Upd(r, [req[r] EXCEPT !.pc = "intern"])
                 /\ UNCHANGED sessions
    /\ UNCHANGED <<tokvars, dbvars, subvars, outcomeMail>>

\* the users lookup, the approval gate, and the session on success
LoginInternQuery(r) ==
    /\ At(r, "login", "intern")
    /\ \E ok \in BOOLEAN :
         LET found == ByEmail(users, req[r].email)
             u == CHOOSE i \in found : TRUE
         IN IF ~ok
            THEN /\ Upd(r, Finish(Throw(req[r]), 500, "Internal server error during login."))
                 /\ UNCHANGED sessions
            ELSE IF found = {}
            THEN /\ Upd(r, Finish(req[r], 401, "Invalid credentials."))
                 /\ UNCHANGED sessions
            ELSE IF ~StartsWith2b(users[u].password)
            THEN /\ Upd(r, Finish(req[r], 403, "Intern password hash is invalid. Contact support."))
                 /\ UNCHANGED sessions
            ELSE IF ~Compare(req[r].password, users[u].password)
            THEN /\ Upd(r, Finish(req[r], 401, "Invalid credentials."))
                 /\ UNCHANGED sessions
            ELSE IF ~InternMayLogin(users[u])
            THEN /\ Upd(r, Finish([req[r] EXCEPT !.userId = u], 403, "pending_approval"))
                 /\ UNCHANGED sessions
            ELSE /\ sessions' = [sessions EXCEPT ![req[r].client] =
                                    SessionUser(u, users[u].email, "intern")]
                 /\ Upd(r, Finish([req[r] EXCEPT !.userId = u], 200, "intern"))
    /\ UNCHANGED <<tokvars, dbvars, subvars, outcomeMail>>

\* ------------------------------------------------- the identity workflows
Init ==
    /\ users = <<>>
    /\ admins = [a \in AdminIds |-> AdminRow(a)]
    /\ nextUserId = 1
    /\ notifications = {}
    /\ sessions = [c \in Clients |-> NoSession]
    /\ outcomeMail = [u \in UserIds |-> 0]
    /\ subs = {}
    /\ nextSubId = [k \in SubmitOps |-> 1]
    /\ messages = {}
    /\ nextMsgId = 1
    /\ logbook_reports = <<>>
    /\ nextLogbookId = 1
    /\ leave_requests = <<>>
    /\ complaints_suggestions = <<>>
    /\ password_reset_tokens = <<>>
    /\ nextToken = 1
    /\ req = [r \in Slots |-> IdleReq]

FormEmails == Emails \cup {Missing}
FormPasswords == Passwords \cup {ShortPw}

Register ==
    \/ \E e \in FormEmails, m \in Matrics, p \in FormPasswords, p2 \in FormPasswords :
          RegisterBegin(SeqSlot, e, m, p, p2)
    \/ RegisterConnect(SeqSlot)
    \/ RegisterBeginTx(SeqSlot)
    \/ RegisterCheck(SeqSlot)
    \/ RegisterInsert(SeqSlot)
    \/ RegisterMail(SeqSlot)
    \/ RegisterInApp(SeqSlot)
    \/ RegisterCommit(SeqSlot)
    \/ RegisterCatch(SeqSlot)

Approve ==
    \/ \E c \in Clients, u \in UserIds : ApproveBegin(SeqSlot, c, u)
    \/ ApproveConnect(SeqSlot)
    \/ ApproveBeginTx(SeqSlot)
    \/ ApproveSelect(SeqSlot)
    \/ ApproveUpdate(SeqSlot)
    \/ ApproveCommit(SeqSlot)
    \/ ApproveMail(SeqSlot)
    \/ ApproveCatch(SeqSlot)

Reject ==
    \/ \E c \in Clients, u \in UserIds, why \in Reasons, del \in BOOLEAN :
          RejectBegin(SeqSlot, c, u, why, del)
    \/ RejectConnect(SeqSlot)
    \/ RejectBeginTx(SeqSlot)
    \/ RejectSelect(SeqSlot)
    \/ RejectWrite(SeqSlot)
    \/ RejectCommit(SeqSlot)
    \/ RejectMail(SeqSlot)
    \/ RejectCatch(SeqSlot)

Login ==
    \/ \E c \in Clients, e \in AdminEmails \cup FormEmails, p \in Passwords \cup {Missing} :
          LoginBegin(SeqSlot, c, e, p)
    \/ LoginConnect(SeqSlot)
    \/ LoginAdminQuery(SeqSlot)
    \/ LoginInternQuery(SeqSlot)

Next == Register \/ Approve \/ Reject \/ Login

Spec == Init /\ [][Next]_vars


\* ------------------------------------------------------------- properties
ReviewOps == {"approve", "reject"}

\* C1: every committed intern row has is_approved = TRUE exactly when its
\* approval_status is 'approved', whatever register / approve-user / reject-user
\* requests have run, one at a time.
C1_ApprovedIffStatus ==
    \A u \in DOMAIN users :
        users[u].is_approved <=> (users[u].approval_status = "approved")

\* C1 witness: one intern was approved and another was rejected and kept
C1_Witness ==
    \E u, v \in DOMAIN users :
        /\ users[u].approval_status = "approved"
        /\ users[v].approval_status = "rejected"

\* C2: an approve-user / reject-user request by an admin that starts when the
\* intern is no longer pending (approved, rejected, or purged) ends without effect:
\* the record is as it was, the request attempted no mail, it answered 404 unless
\* the store failed under it, and no intern ever has more than one outcome mail.
C2_SecondCallRejected ==
    /\ \A u \in UserIds : outcomeMail[u] <= 1
    /\ \A r \in Slots :
        ( /\ req[r].op \in ReviewOps
          /\ req[r].pc = "done"
          /\ req[r].status # 403
          /\ (req[r].pre.found => req[r].pre.row.approval_status # "pending") )
        => /\ req[r].mailTried = 0
           /\ IF req[r].pre.found
              THEN req[r].userId \in DOMAIN users /\ users[req[r].userId] = req[r].pre.row
              ELSE req[r].userId \notin DOMAIN users
           /\ req[r].status = 404 \/ req[r].threw

\* C2 witness: a second call on an intern whose outcome mail was already attempted
\* was answered 404
C2_Witness ==
    \E r \in Slots :
        /\ req[r].op \in ReviewOps /\ req[r].pc = "done" /\ req[r].status = 404
        /\ req[r].pre.found /\ req[r].pre.row.approval_status \in {"approved", "rejected"}
        /\ outcomeMail[req[r].userId] = 1

\* the intern rows whose e-mail and password a login presents
InternPresented(q) ==
    {u \in DOMAIN users : users[u].email = q.email /\ users[u].password[2] = q.password}
\* an admin row the presented e-mail and password authenticate
AdminPresented(q) ==
    \E a \in DOMAIN admins : admins[a].email = q.email /\ admins[a].password[2] = q.password

LoginOutcome(r, u) ==
    IF users[u].is_approved /\ users[u].approval_status = "approved"
    THEN /\ req'[r].status = 200 /\ req'[r].body = "intern"
         /\ sessions'[req[r].client] = [user_id |-> u, email |-> users[u].email, role |-> "intern"]
    ELSE /\ req'[r].status = 403 /\ req'[r].body = "pending_approval"
         /\ sessions' = sessions

C5_MailFailureKeepsTransition ==
    \A r \in Slots :
        (req[r].op \in ReviewOps /\ req[r].mailFailed)
        => /\ req[r].pc = "done" /\ req[r].status = 200 /\ req[r].committed
           /\ LET u == req[r].userId IN
              IF req[r].op = "approve"
              THEN u \in DOMAIN users /\ users[u].approval_status = "approved"
                   /\ users[u].is_approved
              ELSE IF req[r].deleteUser THEN u \notin DOMAIN users
              ELSE u \in DOMAIN users /\ users[u].approval_status = "rejected"
                   /\ users[u].rejection_reason = req[r].reason

\* C5 witness: a hard reject whose mail failed answered 200 and the intern is gone
C5_Witness ==
    \E r \in Slots :
        /\ req[r].op = "reject" /\ req[r].mailFailed /\ req[r].deleteUser
        /\ req[r].status = 200 /\ req[r].userId \notin DOMAIN users

\* C7: an approve-user / reject-user request attempts the outcome mail only once its
\* COMMIT has completed, so an intern with an outcome mail is no longer pending; a
\* request whose lookup, write or COMMIT failed attempts none.
C7_MailOnlyAfterCommit ==
    /\ \A r \in Slots :
          req[r].op \in ReviewOps
          => /\ req[r].mailTried > 0 => req[r].committed
             /\ (req[r].threw /\ ~req[r].committed) => req[r].mailTried = 0
    /\ \A u \in UserIds :
          outcomeMail[u] > 0
          => (u \notin DOMAIN users \/ users[u].approval_status # "pending")

\* C7 witness: a request committed and then attempted its mail
C7_Witness ==
    \E r \in Slots :
        /\ req[r].op \in ReviewOps /\ req[r].pc = "done"
        /\ req[r].committed /\ req[r].mailTried = 1
        /\ outcomeMail[req[r].userId] = 1

\* C8: registration mails an admin, or has an in-app notification persisted, only
\* for an intern row that is committed; a registration that was rolled back has
\* mailed no admin and left no notification.
C8_RegisterCommitBeforeNotify ==
    \A r \in Slots :
        req[r].op = "register"
        => /\ req[r].mailed # {} => (req[r].committed /\ req[r].userId \in DOMAIN users)
           /\ (req[r].pc = "done" /\ ~req[r].committed)
              => /\ req[r].mailed = {}
                 /\ ~\E n \in notifications :
                        n.kind = "registration" /\ n.about = req[r].userId

\* C9: a registration answered 201 has its intern row committed, pending and not
\* approved.
C9_Registered201Persisted ==
    \A r \in Slots :
        (req[r].op = "register" /\ req[r].pc = "done" /\ req[r].status = 201)
        => /\ req[r].userId \in DOMAIN users
           /\ users[req[r].userId].approval_status = "pending"
           /\ users[req[r].userId].is_approved = FALSE
           /\ users[req[r].userId].email = req[r].email


\* ------------------------------- concurrent approve-user / reject-user
\* One intern has registered and is pending, and an admin is logged in; review
\* requests of that session now overlap, each on its own pool client.
ConcInit ==
    /\ users = [u \in {1} |-> NewUserRow("i@x", "m1", Hash("secret2"))]
    /\ admins = [a \in AdminIds |-> AdminRow(a)]
    /\ nextUserId = 2
    /\ notifications = {RegistrationNotification(a, 1) : a \in AdminIds}
    /\ sessions = [c \in Clients |-> SessionUser(1, AdminEmail(1), AdminRole(1))]
    /\ outcomeMail = [u \in UserIds |-> 0]
    /\ subs = {}
    /\ nextSubId = [k \in SubmitOps |-> 1]
    /\ messages = {}
    /\ nextMsgId = 1
    /\ logbook_reports = <<>>
    /\ nextLogbookId = 1
    /\ leave_requests = <<>>
    /\ complaints_suggestions = <<>>
    /\ password_reset_tokens = <<>>
    /\ nextToken = 1
    /\ req = [r \in Slots |-> IdleReq]

ConcApprove(r) ==
    \/ \E c \in Clients, u \in UserIds : ApproveBegin(r, c, u)
    \/ ApproveConnect(r)
    \/ ApproveBeginTx(r)
    \/ ApproveSelect(r)
    \/ ApproveUpdate(r)
    \/ ApproveCommit(r)
    \/ ApproveMail(r)
    \/ ApproveCatch(r)

ConcReject(r) ==
    \/ \E c \in Clients, u \in UserIds, why \in Reasons, del \in BOOLEAN :
          RejectBegin(r, c, u, why, del)
    \/ RejectConnect(r)
    \/ RejectBeginTx(r)
    \/ RejectSelect(r)
    \/ RejectWrite(r)
    \/ RejectCommit(r)
    \/ RejectMail(r)
    \/ RejectCatch(r)

ConcNext == \E r \in Slots : ConcApprove(r) \/ ConcReject(r)

ConcSpec == ConcInit /\ [][ConcNext]_vars

\* C3: of two overlapping approve-user / reject-user requests on one pending
\* intern only one takes effect: no intern gets two outcome mails, no two requests
\* that both found the intern pending both commit, and no record mixes the two
\* outcomes (is_approved = TRUE with approval_status = 'rejected').
C3_ExactlyOneTakesEffect ==
    /\ \A u \in DOMAIN users :
          users[u].is_approved <=> (users[u].approval_status = "approved")
    /\ \A u \in UserIds : outcomeMail[u] <= 1
    /\ \A r, s \in Slots :
          ( /\ r # s
            /\ req[r].op \in ReviewOps /\ req[s].op \in ReviewOps
            /\ req[r].userId = req[s].userId
            /\ req[r].row.found /\ req[s].row.found )
          => ~(req[r].committed /\ req[s].committed)


\* ---------------------------------------------------- submission workflows
Absent == "undefined"                   \* a field the request body does not carry
FieldValues == {Absent, Missing, "text"}

\* isAuthenticated(req, res, next) of routes/Users.js
IsAuthenticated(session) == session # NoSession

\* x?.trim() !== ''  (undefined !== '' holds)
NotEmptyString(v) == v # Missing
\* !x
Falsy(v) == v \in {Absent, Missing}
\* req.body.participants || null
ParticipantsString(v) == IF Falsy(v) THEN NULL ELSE v

\* the 400 guard of submit-complaint-suggestion
\* (when, where, details: incidentDateTime, incidentLocation, complaintDetails)
ComplaintValidation(userId, subject, message, when, where, details, participants) ==
    LET isSuggestionProvided == NotEmptyString(subject) /\ NotEmptyString(message)
        isComplaintProvided ==
            \/ NotEmptyString(when) \/ NotEmptyString(where)
            \/ NotEmptyString(details)
            \/ ParticipantsString(participants) # NULL
    IN ~(userId = 0 \/ (~isSuggestionProvided /\ ~isComplaintProvided))

\* new Date(s): a date string is a day number, 0 when the field is absent and
\* InvalidDay when the string is no date (new Date gives Invalid Date, whose time
\* value is NaN)
InvalidDay == -1
ParsesAsDate(d) == d > 0
\* new Date(a) > new Date(b): a comparison with NaN is false
DateAfter(a, b) == ParsesAsDate(a) /\ ParsesAsDate(b) /\ a > b

\* mutant: the guard on the order of the two dates is dropped
LeaveValidationNoOrder(leaveType, startDate, endDate, reason) ==
    IF Falsy(leaveType) \/ startDate = 0 \/ endDate = 0 \/ Falsy(reason)
    THEN "Missing required fields for leave request."
    ELSE "ok"

\* the 400 guards of submit-leave-request
LeaveValidation(leaveType, startDate, endDate, reason) ==
    IF Falsy(leaveType) \/ startDate = 0 \/ endDate = 0 \/ Falsy(reason)
    THEN "Missing required fields for leave request."
    ELSE IF DateAfter(startDate, endDate) THEN "Start Date cannot be after End Date."
    ELSE "ok"

\* the 400 guards of upload-project-file
ProjectValidation(hasFile, projectName) ==
    IF ~hasFile THEN "No file uploaded."
    ELSE IF Falsy(projectName) THEN "Project name is required."
    ELSE "ok"

\* the switch (action) of sendNotificationToAdmin
ActionOf(op) ==
    CASE op = "complaint" -> "complaint_submitted"
      [] op = "leave" -> "leave_request_submitted"
      [] op = "project" -> "project_uploaded"
SectionOf(action) ==
    CASE action = "complaint_submitted" -> "complaints"
      [] action = "leave_request_submitted" -> "leave-requests"
      [] action = "project_uploaded" -> "projects"
      [] action = "logbook_submitted" -> "logbook"
      [] OTHER -> "dashboard"

\* the row createNotification inserts for one admin; the handlers pass no
\* complaintId / leaveId / projectId, so entity_id is NULL (0).  about is not a
\* column: it remembers the submission the notification was raised for.
AdminNotification(a, senderId, action, about) ==
    [recipient_id |-> a, recipient_role |-> "admin", sender_id |-> senderId,
     kind |-> action, section |-> SectionOf(action), entity_id |-> 0, link_id |-> 0,
     is_read |-> FALSE, about |-> about]

\* status of the success response
SuccessStatus(op) == IF op = "complaint" THEN 200 ELSE 201

StartSubmit(r, c, q0, valid, body) ==
    /\ Idle(r)
    /\ nextSubId[q0.op] <= MaxSubs
    /\ LET q == [q0 EXCEPT !.client = c, !.session = sessions[c],
                           !.userId = sessions[c].user_id]
       IN Upd(r, IF ~IsAuthenticated(sessions[c])
                 THEN Finish(q, 401, "Unauthorized. Please log in.")
                 ELSE IF ~valid THEN Finish(q, 400, body)
                 ELSE [q EXCEPT !.pc = "connect"])
    /\ UNCHANGED <<tokvars, dbvars, subvars, sessions, outcomeMail>>

\* given records what the body carried: a subject and a message, or some complaint
\* field, present and not empty
ComplaintBegin(r, c, subject, message, when, where, details, participants) ==
    StartSubmit(r, c, [IdleReq EXCEPT !.op = "complaint",
                                      !.given = \/ ~Falsy(subject) /\ ~Falsy(message)
                                                \/ ~Falsy(when) \/ ~Falsy(where)
                                                \/ ~Falsy(details) \/ ~Falsy(participants)],
                ComplaintValidation(sessions[c].user_id, subject, message,
                                    when, where, details, participants),
                "Missing required information.")

LeaveBegin(r, c, leaveType, startDate, endDate, reason) ==
    StartSubmit(r, c, [IdleReq EXCEPT !.op = "leave", !.startDate = startDate,
                                       !.endDate = endDate],
                LeaveValidation(leaveType, startDate, endDate, reason) = "ok",
                LeaveValidation(leaveType, startDate, endDate, reason))

ProjectBegin(r, c, hasFile, projectName) ==
    StartSubmit(r, c, [IdleReq EXCEPT !.op = "project"],
                ProjectValidation(hasFile, projectName) = "ok",
                ProjectValidation(hasFile, projectName))

\* client = await pool.connect()
SubmitConnect(r) ==
    /\ req[r].op \in SubmitOps /\ req[r].pc = "connect"
    /\ PoolFree
    /\ \E ok \in BOOLEAN : Upd(r, Connected(req[r], ok, "begin"))
    /\ UNCHANGED <<tokvars, dbvars, subvars, sessions, outcomeMail>>

SubmitBeginTx(r) ==
    /\ req[r].op \in SubmitOps /\ req[r].pc = "begin"
    /\ \E ok \in BOOLEAN : Upd(r, Begun(req[r], ok, "insert"))
    /\ UNCHANGED <<tokvars, dbvars, subvars, sessions, outcomeMail>>

\* INSERT INTO <table> (user_id, ...) ... RETURNING ..., inside the transaction;
\* an owner with no users row fails the foreign key (error code 23503), and a
\* string that is no date is refused by the DATE columns of leave_requests
SubmitInsert(r) ==
    /\ req[r].op \in SubmitOps /\ req[r].pc = "insert"
    /\ \E ok \in BOOLEAN :
         IF req[r].userId \notin DOMAIN users
         THEN /\ Upd(r, [Throw(req[r]) EXCEPT !.errcode = "23503"])
              /\ UNCHANGED nextSubId
         ELSE IF ~ok \/ (req[r].op = "leave" /\ ~(ParsesAsDate(req[r].startDate)
                                                  /\ ParsesAsDate(req[r].endDate)))
         THEN /\ Upd(r, [Throw(req[r]) EXCEPT !.errcode = "other"])
              /\ UNCHANGED nextSubId
         ELSE /\ Upd(r, [req[r] EXCEPT
                    !.pc = "notify_admins", !.subId = nextSubId[req[r].op],
                    !.wSub = [kind |-> "put", id |-> nextSubId[req[r].op],
                              row |-> [kind |-> req[r].op, id |-> nextSubId[req[r].op],
                                       owner |-> req[r].userId]]])
              /\ nextSubId' = [nextSubId EXCEPT ![req[r].op] = @ + 1]
    /\ UNCHANGED <<tokvars, dbvars, subs, messages, nextMsgId, revvars, sessions, outcomeMail>>

\* sendNotificationToAdmin returns early (no admin, or no users row for the sender)
FanOutReturn(q, why) == [q EXCEPT !.pc = "commit", !.todo = {}, !.fanout = why]

\* mutant: an error inside sendNotificationToAdmin reaches the handler
FanOutRethrown(q, why) == Throw([q EXCEPT !.todo = {}, !.fanout = why])

\* catch (error) { console.error(...) } of sendNotificationToAdmin: the function
\* returns normally, whatever was left of the loop is not run
FanOutCaught(q, why) == [q EXCEPT !.pc = "commit", !.todo = {}, !.fanout = why]

\* sendNotificationToAdmin, first statement: pool.query(SELECT admin_id FROM admins
\* ...).  Every error inside sendNotificationToAdmin is caught and logged there.
NotifyAdmins(r) ==
    /\ req[r].op \in SubmitOps /\ req[r].pc = "notify_admins"
    /\ PoolFree
    /\ \E ok \in BOOLEAN :
         Upd(r, IF ~ok THEN FanOutCaught(req[r], "lookup_failed")
                ELSE IF DOMAIN admins = {} THEN FanOutReturn(req[r], "no_admins")
                ELSE [req[r] EXCEPT !.pc = "notify_sender", !.todo = DOMAIN admins])
    /\ UNCHANGED <<tokvars, dbvars, subvars, sessions, outcomeMail>>

\* second statement: pool.query(SELECT first_name, last_name FROM users WHERE
\* user_id = $1); no row, no notification
NotifySender(r) ==
    /\ req[r].op \in SubmitOps /\ req[r].pc = "notify_sender"
    /\ PoolFree
    /\ \E ok \in BOOLEAN :
         Upd(r, IF ~ok THEN FanOutCaught(req[r], "lookup_failed")
                ELSE IF req[r].userId \notin DOMAIN users
                THEN FanOutReturn(req[r], "no_sender")
                ELSE [req[r] EXCEPT !.pc = "notify_insert", !.fanout = "loop"])
    /\ UNCHANGED <<tokvars, dbvars, subvars, sessions, outcomeMail>>

\* one turn of for (const admin of adminResult.rows) await createNotification(...):
\* an INSERT through pool.query, committed on its own; an error ends the loop
NotifyInsert(r) ==
    /\ req[r].op \in SubmitOps /\ req[r].pc = "notify_insert"
    /\ PoolFree
    /\ \E a \in req[r].todo, ok \in BOOLEAN :
         IF ok
         THEN /\ notifications' = notifications \cup
                    {AdminNotification(a, req[r].userId, ActionOf(req[r].op), req[r].subId)}
              /\ Upd(r, [req[r] EXCEPT
                    !.todo = @ \ {a},
                    !.pc = IF req[r].todo = {a} THEN "commit" ELSE "notify_insert"])
         ELSE /\ Upd(r, FanOutCaught([req[r] EXCEPT !.nfail = {a}], "insert_failed"))
              /\ UNCHANGED notifications
    /\ UNCHANGED <<tokvars, users, admins, nextUserId, subvars, sessions, outcomeMail>>

\* client.query('COMMIT') and the success response
SubmitCommit(r) ==
    /\ req[r].op \in SubmitOps /\ req[r].pc = "commit"
    /\ \E ok \in BOOLEAN :
         IF ok
         THEN /\ subs' = subs \cup {req[r].wSub.row}
              /\ Upd(r, Finish([req[r] EXCEPT !.committed = TRUE],
                               SuccessStatus(req[r].op), "submitted"))
         ELSE /\ Upd(r, Throw(req[r]))
              /\ UNCHANGED subs
    /\ UNCHANGED <<tokvars, dbvars, nextSubId, messages, nextMsgId, revvars, sessions, outcomeMail>>

\* the catch blocks.  complaint and project call client.query('ROLLBACK') without
\* testing client, which throws inside the catch when pool.connect() had failed;
\* leave tests client first and answers 404 on error code 23503.
SubmitCatch(r) ==
    /\ req[r].op \in SubmitOps /\ req[r].pc = "catch"
    /\ \E ok \in BOOLEAN :
         Upd(r, IF req[r].op = "leave"
                THEN IF req[r].hasClient /\ ~ok THEN Finish(req[r], 0, "no_response")
                     ELSE IF req[r].errcode = "23503"
                     THEN Finish(req[r], 404, "User not found.")
                     ELSE Finish(req[r], 500, "Failed to submit leave request.")
                ELSE IF ~req[r].hasClient \/ ~ok THEN Finish(req[r], 0, "no_response")
                     ELSE Finish(req[r], 500, "Failed to submit."))
    /\ UNCHANGED <<tokvars, dbvars, subvars, sessions, outcomeMail>>

\* An intern has registered and been approved; the browser holds no session, that
\* intern's session, or an admin's (the submission routes test only that a session
\* exists).
SubmitInit ==
    /\ users = [u \in {1} |-> ApprovedRow(NewUserRow("i@x", "m1", Hash("secret2")), 1)]
    /\ admins = [a \in AdminIds |-> AdminRow(a)]
    /\ nextUserId = 2
    /\ notifications = {RegistrationNotification(a, 1) : a \in AdminIds}
    /\ sessions \in [Clients -> {NoSession, SessionUser(1, "i@x", "intern")}
                                \cup {SessionUser(a, AdminEmail(a), AdminRole(a)) : a \in AdminIds}]
    /\ outcomeMail = [u \in UserIds |-> IF u = 1 THEN 1 ELSE 0]
    /\ subs = {}
    /\ nextSubId = [k \in SubmitOps |-> 1]
    /\ messages = {}
    /\ nextMsgId = 1
    /\ logbook_reports = <<>>
    /\ nextLogbookId = 1
    /\ leave_requests = <<>>
    /\ complaints_suggestions = <<>>
    /\ password_reset_tokens = <<>>
    /\ nextToken = 1
    /\ req = [r \in Slots |-> IdleReq]

Days == {InvalidDay} \cup 0..MaxDay

SubmitNext ==
    \/ \E c \in Clients, f1, f2, f3, f4, f5, f6 \in FieldValues :
          ComplaintBegin(SeqSlot, c, f1, f2, f3, f4, f5, f6)
    \/ \E c \in Clients, lt, why \in FieldValues, d1, d2 \in Days :
          LeaveBegin(SeqSlot, c, lt, d1, d2, why)
    \/ \E c \in Clients, hasFile \in BOOLEAN, name \in FieldValues :
          ProjectBegin(SeqSlot, c, hasFile, name)
    \/ SubmitConnect(SeqSlot)
    \/ SubmitBeginTx(SeqSlot)
    \/ SubmitInsert(SeqSlot)
    \/ NotifyAdmins(SeqSlot)
    \/ NotifySender(SeqSlot)
    \/ NotifyInsert(SeqSlot)
    \/ SubmitCommit(SeqSlot)
    \/ SubmitCatch(SeqSlot)

SubmitSpec == SubmitInit /\ [][SubmitNext]_vars

\* C6: in the complaint, leave-request and project-upload workflows an admin
\* notification for a submission is persisted only once the submission row is
\* committed: every such notification has its submission row in the table.
C6_SubmissionCommittedBeforeNotify ==
    \A n \in notifications :
        n.kind \in {ActionOf(op) : op \in SubmitOps}
        => \E row \in subs : ActionOf(row.kind) = n.kind /\ row.id = n.about

NotifyPcs == {"notify_admins", "notify_sender", "notify_insert"}
FanOutFailures == {"lookup_failed", "insert_failed"}

\* C11: in the fan-out to the admins a failed insert for one admin does not keep the
\* others from being notified: when a submission request has ended and its fan-out
\* reached the loop, every admin whose insert did not fail has a notification of it.
C11_FanOutIsolated ==
    \A r \in Slots :
        (req[r].op \in SubmitOps /\ req[r].pc = "done"
            /\ req[r].fanout \in {"loop", "insert_failed"})
        => \A a \in DOMAIN admins \ req[r].nfail :
              \E n \in notifications :
                  /\ n.recipient_id = a /\ n.recipient_role = "admin"
                  /\ n.kind = ActionOf(req[r].op) /\ n.about = req[r].subId

\* C12: a failure inside the admin fan-out (admin lookup, sender lookup, notification
\* insert) never reaches the handler of a complaint, leave-request or project-upload
\* submission: no step of the fan-out throws into the handler, and after a failed
\* fan-out the COMMIT that goes through leaves the submission row committed and the
\* success response sent.
C12_FanOutFailureNotPropagated ==
    [][\A r \in Slots :
          req[r].op \in SubmitOps
          => /\ req[r].pc \in NotifyPcs
                => (req'[r].pc \in NotifyPcs \cup {"commit"} /\ ~req'[r].threw)
             /\ ( /\ req[r].pc = "commit" /\ req[r].fanout \in FanOutFailures
                  /\ req'[r].pc = "done" )
                => /\ req'[r].status = (IF req[r].op = "complaint" THEN 200 ELSE 201)
                   /\ req'[r].committed
                   /\ \E row \in subs' : row.kind = req[r].op /\ row.id = req[r].subId]_vars

\* C12 witness: a submission whose notification insert failed was committed and
\* answered with success
C12_Witness ==
    \E r \in Slots :
        /\ req[r].op \in SubmitOps /\ req[r].pc = "done"
        /\ req[r].fanout = "insert_failed" /\ req[r].nfail # {}
        /\ req[r].committed /\ req[r].status \in {200, 201}
        /\ \E row \in subs : row.kind = req[r].op /\ row.id = req[r].subId

\* C16: a leave request whose start date is later than its end date is answered 400
\* before a connection is taken or a row written; one whose dates are equal is not
\* refused by this guard.
C16_LeaveDatesGuard ==
    \A r \in Slots :
        (req[r].op = "leave" /\ req[r].status # 401)
        => /\ (req[r].endDate > 0 /\ req[r].startDate > req[r].endDate)
              => /\ req[r].pc = "done" /\ req[r].status = 400
                 /\ ~req[r].hasClient /\ req[r].tx = "none" /\ ~req[r].committed
                 /\ req[r].subId = 0 /\ req[r].wSub = NoWrite
                 /\ req[r].fanout = "none"
           /\ (req[r].startDate > 0 /\ req[r].startDate = req[r].endDate)
              => req[r].body # "Start Date cannot be after End Date."

\* C16 witness: a leave request starting after it ends was answered 400 for that
C16_Witness ==
    \E r \in Slots :
        /\ req[r].op = "leave" /\ req[r].pc = "done"
        /\ req[r].endDate > 0 /\ req[r].startDate > req[r].endDate
        /\ req[r].status = 400 /\ req[r].body = "Start Date cannot be after End Date."
        /\ subs = {} /\ notifications = {RegistrationNotification(a, 1) : a \in AdminIds}

\* C21: when the database step of a complaint, leave-request or project-upload
\* submission fails before the fan-out (pool.connect, BEGIN or the INSERT rejects),
\* the request ends with one failure response (500, or 404 for the leave request's
\* foreign-key error), no submission row of it is in the table and no admin
\* notification of it was raised.
C21_DbFailureAnswered ==
    \A r \in Slots :
        (req[r].op \in SubmitOps /\ req[r].pc = "done" /\ req[r].threw
            /\ req[r].fanout = "none")
        => /\ req[r].status \in {500, 404}
           /\ ~req[r].committed
           /\ ~\E row \in subs : row.kind = req[r].op /\ row.id = req[r].subId
           /\ ~\E n \in notifications :
                  n.kind = ActionOf(req[r].op) /\ n.about = req[r].subId

\* C28: a request to an intern submission endpoint (complaint, leave request, project
\* upload) that carries an admin's or superadmin's session changes no state: while
\* it runs no submission row is stored and no notification is raised.
C28_RoleMismatchRejected ==
    [][\A r \in Slots :
          (req[r].op \in SubmitOps /\ IsAdminOrSuperadmin(req[r].session))
          => (subs' = subs /\ notifications' = notifications)]_vars


\* ------------------------------------------------- submit-logbook-report
\* weekDate is a day counted from Monday 2024-12-30 (day 1); 0 when the field is
\* absent.  Days 1 and 2 fall in 2024, day 3 is 2025-01-01, day 8 is Monday
\* 2025-01-06.
WeekDates == {2, 3, 8}

\* EXTRACT(WEEK FROM d): the ISO 8601 week number (weeks start on Monday; the week
\* of 2024-12-30 is week 1 of ISO year 2025)
ExtractWeek(d) == ((d - 1) \div 7) + 1
\* EXTRACT(YEAR FROM d): the calendar year
ExtractYear(d) == IF d <= 2 THEN 2024 ELSE 2025
\* the ISO week a date lies in, as (ISO year, ISO week)
IsoWeekOf(d) == <<2025, ExtractWeek(d)>>

\* the row INSERT INTO logbook_reports creates; status, grade and graded_by are
\* left to the column defaults (the dashboard counts ungraded reports by
\* status = 'Pending')
NewLogbookRow(userId, weekDate) ==
    [user_id |-> userId, week_date |-> weekDate, status |-> "Pending",
     grade |-> NULL, graded_by |-> 0]

\* SELECT 1 FROM logbook_reports WHERE user_id = $1
\*   AND EXTRACT(WEEK FROM week_date) = EXTRACT(WEEK FROM $2::DATE)
\*   AND EXTRACT(YEAR FROM week_date) = EXTRACT(YEAR FROM $2::DATE)
DuplicateCheck(tbl, userId, weekDate) ==
    {i \in DOMAIN tbl : /\ tbl[i].user_id = userId
                        /\ ExtractWeek(tbl[i].week_date) = ExtractWeek(weekDate)
                        /\ ExtractYear(tbl[i].week_date) = ExtractYear(weekDate)}

\* the synchronous returns at the head of the handler: missing fields, the Monday
\* 9:00 cut-off (late: it is Monday, 9:00 or later), JSON.parse(reports)
LogbookValidation(userId, weekDate, weekRange, reports, late) ==
    IF userId = 0 \/ weekDate = 0 \/ Falsy(weekRange) \/ Falsy(reports)
    THEN <<400, "Missing required fields">>
    ELSE IF late THEN <<403, "Reports can only be submitted before 9:00 AM on Monday.">>
    ELSE IF reports # "json" THEN <<400, "Invalid reports JSON format">>
    ELSE <<0, "ok">>

\* the rows of one user that lie in the ISO week of a date
SameIsoWeek(tbl, userId, weekDate) ==
    {i \in DOMAIN tbl : tbl[i].user_id = userId
                         /\ IsoWeekOf(tbl[i].week_date) = IsoWeekOf(weekDate)}

\* the request arrives; the route has no isAuthenticated in front of it
\* now.getDay() (0 = Sunday, 1 = Monday, 2 = Tuesday) and now.getHours() of the
\* server clock
Weekdays == 0..2
Hours == {8, 9}
\* if (dayOfWeek === 1 && currentHour >= 9) return 403
PastCutoff(dayOfWeek, currentHour) == dayOfWeek = 1 /\ currentHour >= 9

\* inWindow records whether the request arrived on a Monday before 9:00
LogbookBegin(r, c, weekDate, weekRange, reports, dayOfWeek, currentHour) ==
    /\ Idle(r)
    /\ nextLogbookId <= MaxLogbooks
    /\ LET uid == sessions[c].user_id
           v == LogbookValidation(uid, weekDate, weekRange, reports,
                                  PastCutoff(dayOfWeek, currentHour))
       IN Upd(r, [IdleReq EXCEPT !.op = "logbook", !.pc = "connect", !.client = c,
                                 !.session = sessions[c], !.userId = uid,
                                 !.inWindow = (dayOfWeek = 1 /\ currentHour < 9),
                                 !.weekDate = weekDate, !.status = v[1], !.body = v[2],
                                 !.pre = [found |-> SameIsoWeek(logbook_reports, uid, weekDate) # {}]])
    /\ UNCHANGED <<tokvars, dbvars, subvars, sessions, outcomeMail>>

\* const client = await pool.connect() stands before the try: when it rejects the
\* handler ends without a response.  Then the synchronous validation returns.
LogbookConnect(r) ==
    /\ At(r, "logbook", "connect")
    /\ \E ok \in BOOLEAN :
         Upd(r, IF ~ok THEN Finish([req[r] EXCEPT !.threw = TRUE], 0, "no_response")
                ELSE IF req[r].body # "ok" THEN Finish(req[r], req[r].status, req[r].body)
                ELSE [req[r] EXCEPT !.hasClient = TRUE, !.pc = "check"])
    /\ UNCHANGED <<tokvars, dbvars, subvars, sessions, outcomeMail>>

\* the duplicate check; a hit returns 400
LogbookCheck(r) ==
    /\ At(r, "logbook", "check")
    /\ \E ok \in BOOLEAN :
         Upd(r, IF ~ok THEN Finish(Throw(req[r]), 500, "Server error. Please try again.")
                ELSE IF DuplicateCheck(logbook_reports, req[r].userId, req[r].weekDate) # {}
                THEN Finish(req[r], 400, "You have already submitted a report for this week.")
                ELSE [req[r] EXCEPT !.pc = "insert"])
    /\ UNCHANGED <<tokvars, dbvars, subvars, sessions, outcomeMail>>

\* INSERT INTO logbook_reports (no BEGIN was issued: the row is committed), then
\* res.json({ success: true, ... }); the handler notifies nobody
LogbookInsert(r) ==
    /\ At(r, "logbook", "insert")
    /\ \E ok \in BOOLEAN :
         IF ok /\ req[r].userId \in DOMAIN users
         THEN /\ logbook_reports' =
                    [i \in DOMAIN logbook_reports \cup {nextLogbookId} |->
                        IF i = nextLogbookId
                        THEN NewLogbookRow(req[r].userId, req[r].weekDate)
                        ELSE logbook_reports[i]]
              /\ nextLogbookId' = nextLogbookId + 1
              /\ Upd(r, Finish([req[r] EXCEPT !.subId = nextLogbookId, !.committed = TRUE],
                               200, "Logbook report submitted successfully"))
         ELSE /\ Upd(r, Finish(Throw(req[r]), 500, "Server error. Please try again."))
              /\ UNCHANGED <<logbook_reports, nextLogbookId>>
    /\ UNCHANGED <<tokvars, dbvars, subs, nextSubId, messages, nextMsgId,
                   leave_requests, complaints_suggestions, sessions, outcomeMail>>

\* An intern has registered and been approved; the browser holds no session or that
\* intern's; logbook requests of the browser may overlap.
LogbookInit ==
    /\ users = [u \in {1} |-> ApprovedRow(NewUserRow("i@x", "m1", Hash("secret2")), 1)]
    /\ admins = [a \in AdminIds |-> AdminRow(a)]
    /\ nextUserId = 2
    /\ notifications = {RegistrationNotification(a, 1) : a \in AdminIds}
    /\ sessions \in [Clients -> {NoSession, SessionUser(1, "i@x", "intern")}]
    /\ outcomeMail = [u \in UserIds |-> IF u = 1 THEN 1 ELSE 0]
    /\ subs = {}
    /\ nextSubId = [k \in SubmitOps |-> 1]
    /\ messages = {}
    /\ nextMsgId = 1
    /\ logbook_reports = <<>>
    /\ nextLogbookId = 1
    /\ leave_requests = <<>>
    /\ complaints_suggestions = <<>>
    /\ password_reset_tokens = <<>>
    /\ nextToken = 1
    /\ req = [r \in Slots |-> IdleReq]

LogbookNext ==
    \E r \in Slots :
        \/ \E c \in Clients, d \in WeekDates \cup {0}, wr \in {Absent, "text"},
              rp \in {Absent, "text", "json"}, day \in Weekdays, hour \in Hours :
              LogbookBegin(r, c, d, wr, rp, day, hour)
        \/ LogbookConnect(r)
        \/ LogbookCheck(r)
        \/ LogbookInsert(r)

LogbookSpec == LogbookInit /\ [][LogbookNext]_vars

\* C13: after a successful submission of any kind (logbook report, leave request,
\* complaint, project upload) whose notification steps did not fail, every admin has
\* a notification describing that submission.
C13_EveryAdminNotified ==
    \A r \in Slots :
        ( /\ req[r].op \in SubmitOps \cup {"logbook"}
          /\ req[r].pc = "done" /\ req[r].status \in {200, 201}
          /\ req[r].fanout \notin FanOutFailures )
        => \A a \in DOMAIN admins :
              \E n \in notifications :
                  /\ n.recipient_id = a /\ n.recipient_role = "admin"
                  /\ n.kind = (IF req[r].op = "logbook" THEN "logbook_submitted"
                                ELSE ActionOf(req[r].op))
                  /\ n.about = req[r].subId

\* C14: a logbook request that starts when a report of the same user for the same
\* ISO week is already stored, and that the store answers, gets the Conflict answer
\* (409), and that user keeps exactly one report for that week.
C14_SecondLogbookConflict ==
    \A r \in Slots :
        ( /\ req[r].op = "logbook" /\ req[r].pc = "done" /\ ~req[r].threw
          /\ req[r].pre.found /\ req[r].weekDate # 0
          /\ req[r].status \notin {403} /\ req[r].body # "Missing required fields"
          /\ req[r].body # "Invalid reports JSON format" )
        => /\ req[r].status = 409
           /\ Cardinality(SameIsoWeek(logbook_reports, req[r].userId, req[r].weekDate)) = 1

\* C15: no user ever has two logbook rows with the same week of year and year.
C15_OneLogbookPerWeek ==
    \A i, j \in DOMAIN logbook_reports :
        ( /\ logbook_reports[i].user_id = logbook_reports[j].user_id
          /\ ExtractWeek(logbook_reports[i].week_date) = ExtractWeek(logbook_reports[j].week_date)
          /\ ExtractYear(logbook_reports[i].week_date) = ExtractYear(logbook_reports[j].week_date) )
        => i = j


\* ------------------------------------------------------- review workflows
\* PATCH /logbooks/:logbookId/grade, PATCH /complaints/:id/review and
\* POST /update-leave-request-status.  None of them issues BEGIN: every statement
\* is committed when it returns.
ReviewKinds == {"grade", "complaint_review", "leave_status"}
RecordIds == {1, 2}                        \* ids a review request may name
GradeValues == {Absent, " ", "A", "B"}     \* req.body.grade
LeaveStatusValues == {Absent, "approved", "rejected", "on hold"}
ComplaintStatusValues == {Absent, "resolved", "dismissed", "on hold"}
ResponseValues == {Absent, "text"}         \* response / rejectionReason

\* x || null
OrNull(v) == IF Falsy(v) THEN NULL ELSE v

\* !grade || typeof grade !== 'string' || grade.trim().length === 0
GradeMissing(grade) == Falsy(grade) \/ grade = " "

\* the row createNotification inserts for the owner of a reviewed record
ReviewNotification(owner, senderId, section, entityId) ==
    [recipient_id |-> owner, recipient_role |-> "user", sender_id |-> senderId,
     kind |-> "review", section |-> section, entity_id |-> entityId, link_id |-> 0,
     is_read |-> FALSE, about |-> entityId]

\* UPDATE logbook_reports SET grade = $1, graded_by = $2, graded_at = ..., status = 'graded'
GradedRow(row, grade, adminId) ==
    [row EXCEPT !.grade = grade, !.graded_by = adminId, !.status = "graded"]

\* UPDATE complaints_suggestions SET status = $1, response = $2, reviewed_at = NOW(),
\*                                   reviewed_by = $3
ReviewedComplaint(row, status, response, adminId) ==
    [row EXCEPT !.status = status, !.response = OrNull(response), !.reviewed_by = adminId,
                !.reviewed = TRUE]

\* UPDATE leave_requests SET status = $1, reviewed_at = $2, rejection_reason = $3
ReviewedLeave(row, status, rejectionReason) ==
    [row EXCEPT !.status = status, !.rejection_reason = OrNull(rejectionReason),
                !.reviewed = TRUE]

\* a table with one row replaced
WithRow(tbl, id, row) == [tbl EXCEPT ![id] = row]

\* the target row when the request arrives (kept for the properties)
SnapshotOf(tbl, id) == IF id \in DOMAIN tbl THEN [found |-> TRUE, row |-> tbl[id]] ELSE NoRow

\* isAuthenticated and isAdminOrSuperadmin of routes/admin.js, then the handler's
\* own synchronous 400 return, if it has one before its first await
StartReview(r, c, q0, invalid, body) ==
    /\ Idle(r)
    /\ LET q == [q0 EXCEPT !.client = c, !.session = sessions[c]]
       IN Upd(r, IF ~IsAuthenticated(sessions[c]) THEN Finish(q, 401, "Not authenticated.")
                 ELSE IF ~IsAdminOrSuperadmin(sessions[c])
                 THEN Finish(q, 403, "Access denied: Admin privileges required.")
                 ELSE IF invalid THEN Finish(q, 400, body)
                 ELSE [q EXCEPT !.pc = "connect"])
    /\ UNCHANGED <<tokvars, dbvars, subvars, sessions, outcomeMail>>

\* the catch block of the three handlers: 500, no statement issued
ReviewFailed(q, body) == Finish(Throw(q), 500, body)

\* ---- grade a logbook report
GradeBegin(r, c, id, grade) ==
    StartReview(r, c, [IdleReq EXCEPT !.op = "grade", !.subId = id, !.grade = grade,
                                      !.pre = SnapshotOf(logbook_reports, id)],
                FALSE, "none")

\* client = await pool.connect(), then the grade validation
GradeConnect(r) ==
    /\ At(r, "grade", "connect")
    /\ \E ok \in BOOLEAN :
         Upd(r, IF ~ok THEN ReviewFailed(req[r], "Server error while updating logbook grade.")
                ELSE IF GradeMissing(req[r].grade)
                THEN Finish(req[r], 400, "Grade is required and must be a non-empty string.")
                ELSE [req[r] EXCEPT !.hasClient = TRUE, !.pc = "select"])
    /\ UNCHANGED <<tokvars, dbvars, subvars, sessions, outcomeMail>>

\* SELECT user_id, submitted_at FROM logbook_reports WHERE logbook_id = $1
GradeSelect(r) ==
    /\ At(r, "grade", "select")
    /\ \E ok \in BOOLEAN :
         Upd(r, IF ~ok THEN ReviewFailed(req[r], "Server error while updating logbook grade.")
                ELSE IF req[r].subId \notin DOMAIN logbook_reports
                THEN Finish(req[r], 404, "Logbook report not found.")
                ELSE [req[r] EXCEPT !.pc = "update",
                        !.row = [found |-> TRUE,
                                 user_id |-> logbook_reports[req[r].subId].user_id]])
    /\ UNCHANGED <<tokvars, dbvars, subvars, sessions, outcomeMail>>

\* UPDATE logbook_reports SET ... WHERE logbook_id = $3 RETURNING ...
GradeUpdate(r) ==
    /\ At(r, "grade", "update")
    /\ \E ok \in BOOLEAN :
         IF ~ok
         THEN /\ Upd(r, ReviewFailed(req[r], "Server error while updating logbook grade."))
              /\ UNCHANGED logbook_reports
         ELSE IF req[r].subId \notin DOMAIN logbook_reports
         THEN /\ Upd(r, Finish(req[r], 404, "Logbook report not found after update attempt."))
              /\ UNCHANGED logbook_reports
         ELSE /\ logbook_reports' =
                    WithRow(logbook_reports, req[r].subId,
                            GradedRow(logbook_reports[req[r].subId], req[r].grade,
                                      req[r].session.user_id))
              /\ Upd(r, [req[r] EXCEPT !.pc = "notify", !.committed = TRUE])
    /\ UNCHANGED <<tokvars, dbvars, subs, nextSubId, messages, nextMsgId, nextLogbookId,
                   leave_requests, complaints_suggestions, sessions, outcomeMail>>

\* await createNotification({...}) inside the handler's try, then the 200
GradeNotify(r) ==
    /\ At(r, "grade", "notify")
    /\ \E ok \in BOOLEAN :
         IF ok
         THEN /\ notifications' = notifications \cup
                    {ReviewNotification(req[r].row.user_id, req[r].session.user_id,
                                        "logbook", req[r].subId)}
              /\ Upd(r, Finish([req[r] EXCEPT !.notified = TRUE], 200,
                               "Logbook grade updated and student notified successfully."))
         ELSE /\ Upd(r, ReviewFailed([req[r] EXCEPT !.errcode = "notification_insert"],
                                     "Server error while updating logbook grade."))
              /\ UNCHANGED notifications
    /\ UNCHANGED <<tokvars, users, admins, nextUserId, subvars, sessions, outcomeMail>>

\* ---- review a complaint
ComplaintReviewBegin(r, c, id, status, response) ==
    StartReview(r, c, [IdleReq EXCEPT !.op = "complaint_review", !.subId = id,
                                      !.newStatus = status, !.reason = response,
                                      !.pre = SnapshotOf(complaints_suggestions, id)],
                Falsy(status), "Status is required.")

ComplaintReviewConnect(r) ==
    /\ At(r, "complaint_review", "connect")
    /\ \E ok \in BOOLEAN :
         Upd(r, IF ~ok THEN ReviewFailed(req[r], "Failed to review complaint.")
                ELSE [req[r] EXCEPT !.hasClient = TRUE, !.pc = "select"])
    /\ UNCHANGED <<tokvars, dbvars, subvars, sessions, outcomeMail>>

\* SELECT complaints_id, user_id, subject FROM complaints_suggestions WHERE complaints_id = $1
ComplaintReviewSelect(r) ==
    /\ At(r, "complaint_review", "select")
    /\ \E ok \in BOOLEAN :
         Upd(r, IF ~ok THEN ReviewFailed(req[r], "Failed to review complaint.")
                ELSE IF req[r].subId \notin DOMAIN complaints_suggestions
                THEN Finish(req[r], 404, "Complaint not found.")
                ELSE [req[r] EXCEPT !.pc = "update",
                        !.row = [found |-> TRUE,
                                 user_id |-> complaints_suggestions[req[r].subId].user_id]])
    /\ UNCHANGED <<tokvars, dbvars, subvars, sessions, outcomeMail>>

\* UPDATE complaints_suggestions SET status = $1, ... WHERE complaints_id = $4
ComplaintReviewUpdate(r) ==
    /\ At(r, "complaint_review", "update")
    /\ \E ok \in BOOLEAN :
         IF ok /\ req[r].subId \in DOMAIN complaints_suggestions
         THEN /\ complaints_suggestions' =
                    WithRow(complaints_suggestions, req[r].subId,
                            ReviewedComplaint(complaints_suggestions[req[r].subId],
                                              req[r].newStatus, req[r].reason,
                                              req[r].session.user_id))
              /\ Upd(r, [req[r] EXCEPT !.pc = "notify", !.committed = TRUE])
         ELSE /\ Upd(r, IF ok THEN [req[r] EXCEPT !.pc = "notify"]
                        ELSE ReviewFailed(req[r], "Failed to review complaint."))
              /\ UNCHANGED complaints_suggestions
    /\ UNCHANGED <<tokvars, dbvars, subs, nextSubId, messages, nextMsgId, logbook_reports,
                   nextLogbookId, leave_requests, sessions, outcomeMail>>

\* await createNotification({...}) inside the handler's try, then the success response
ComplaintReviewNotify(r) ==
    /\ At(r, "complaint_review", "notify")
    /\ \E ok \in BOOLEAN :
         IF ok
         THEN /\ notifications' = notifications \cup
                    {ReviewNotification(req[r].row.user_id, req[r].session.user_id,
                                        "complaints", req[r].subId)}
              /\ Upd(r, Finish([req[r] EXCEPT !.notified = TRUE], 200, "reviewed"))
         ELSE /\ Upd(r, ReviewFailed([req[r] EXCEPT !.errcode = "notification_insert"],
                                     "Failed to review complaint."))
              /\ UNCHANGED notifications
    /\ UNCHANGED <<tokvars, users, admins, nextUserId, subvars, sessions, outcomeMail>>

\* ---- update a leave request's status
LeaveStatusBegin(r, c, permissionId, status, rejectionReason) ==
    StartReview(r, c, [IdleReq EXCEPT !.op = "leave_status", !.subId = permissionId,
                                      !.newStatus = status, !.reason = rejectionReason,
                                      !.pre = SnapshotOf(leave_requests, permissionId)],
                permissionId = 0 \/ Falsy(status),
                "Missing required fields: permissionId and status.")

LeaveStatusConnect(r) ==
    /\ At(r, "leave_status", "connect")
    /\ \E ok \in BOOLEAN :
         Upd(r, IF ~ok THEN ReviewFailed(req[r], "Failed to update leave request status.")
                ELSE [req[r] EXCEPT !.hasClient = TRUE, !.pc = "update"])
    /\ UNCHANGED <<tokvars, dbvars, subvars, sessions, outcomeMail>>

\* UPDATE leave_requests SET ... WHERE permission_id = $4 RETURNING *, the 404 when
\* no row was updated, and the call createNotification({ ..., senderId: adminId,
\* ... }): the handler declares reviewerId, and no adminId is in scope, so building
\* the argument throws a ReferenceError into the catch block
LeaveStatusUpdate(r) ==
    /\ At(r, "leave_status", "update")
    /\ \E ok \in BOOLEAN :
         IF ~ok
         THEN /\ Upd(r, ReviewFailed(req[r], "Failed to update leave request status."))
              /\ UNCHANGED leave_requests
         ELSE IF req[r].subId \notin DOMAIN leave_requests
         THEN /\ Upd(r, Finish(req[r], 404, "Leave request not found."))
              /\ UNCHANGED leave_requests
         ELSE /\ leave_requests' =
                    WithRow(leave_requests, req[r].subId,
                            ReviewedLeave(leave_requests[req[r].subId],
                                          req[r].newStatus, req[r].reason))
              /\ Upd(r, ReviewFailed([req[r] EXCEPT !.committed = TRUE,
                                                    !.errcode = "ReferenceError"],
                                     "Failed to update leave request status."))
    /\ UNCHANGED <<tokvars, dbvars, subs, nextSubId, messages, nextMsgId, logbook_reports,
                   nextLogbookId, complaints_suggestions, sessions, outcomeMail>>

\* An approved intern owns one logbook report, one leave request and one complaint,
\* none reviewed yet; the browser holds no session, the intern's, or an admin's.
ReviewInit ==
    /\ users = [u \in {1} |-> ApprovedRow(NewUserRow("i@x", "m1", Hash("secret2")), 1)]
    /\ admins = [a \in AdminIds |-> AdminRow(a)]
    /\ nextUserId = 2
    /\ notifications = {RegistrationNotification(a, 1) : a \in AdminIds}
    /\ sessions \in [Clients -> {NoSession, SessionUser(1, "i@x", "intern")}
                                \cup {SessionUser(a, AdminEmail(a), AdminRole(a)) : a \in AdminIds}]
    /\ outcomeMail = [u \in UserIds |-> IF u = 1 THEN 1 ELSE 0]
    /\ subs = {}
    /\ nextSubId = [k \in SubmitOps |-> 1]
    /\ messages = {}
    /\ nextMsgId = 1
    /\ logbook_reports = [i \in {1} |-> NewLogbookRow(1, 3)]
    /\ nextLogbookId = 2
    /\ leave_requests = [i \in {1} |-> [user_id |-> 1, status |-> "Pending",
                                          rejection_reason |-> NULL, reviewed |-> FALSE]]
    /\ complaints_suggestions = [i \in {1} |-> [user_id |-> 1, status |-> "pending",
                                                  response |-> NULL, reviewed_by |-> 0,
                                                  reviewed |-> FALSE]]
    /\ password_reset_tokens = <<>>
    /\ nextToken = 1
    /\ req = [r \in Slots |-> IdleReq]

ReviewNext ==
    \/ \E c \in Clients, id \in RecordIds, g \in GradeValues : GradeBegin(SeqSlot, c, id, g)
    \/ GradeConnect(SeqSlot)
    \/ GradeSelect(SeqSlot)
    \/ GradeUpdate(SeqSlot)
    \/ GradeNotify(SeqSlot)
    \/ \E c \in Clients, id \in RecordIds, st \in ComplaintStatusValues, rs \in ResponseValues :
          ComplaintReviewBegin(SeqSlot, c, id, st, rs)
    \/ ComplaintReviewConnect(SeqSlot)
    \/ ComplaintReviewSelect(SeqSlot)
    \/ ComplaintReviewUpdate(SeqSlot)
    \/ ComplaintReviewNotify(SeqSlot)
    \/ \E c \in Clients, id \in RecordIds \cup {0}, st \in LeaveStatusValues, rs \in ResponseValues :
          LeaveStatusBegin(SeqSlot, c, id, st, rs)
    \/ LeaveStatusConnect(SeqSlot)
    \/ LeaveStatusUpdate(SeqSlot)

ReviewSpec == ReviewInit /\ [][ReviewNext]_vars

\* the table a review request works on
ReviewTable(op) ==
    CASE op = "grade" -> logbook_reports
      [] op = "complaint_review" -> complaints_suggestions
      [] op = "leave_status" -> leave_requests
TerminalStatuses == {"graded", "approved", "rejected", "resolved", "dismissed"}

\* C17: terminal statuses are absorbing: a grade, complaint review or leave status
\* request by an admin that starts on a record already graded, approved, rejected,
\* resolved or dismissed ends with a failure answer and leaves the record (status,
\* reviewer, free text) as it was.
C17_TerminalAbsorbing ==
    \A r \in Slots :
        ( /\ req[r].op \in ReviewKinds /\ req[r].pc = "done"
          /\ req[r].pre.found /\ req[r].pre.row.status \in TerminalStatuses )
        => /\ req[r].status >= 400
           /\ ReviewTable(req[r].op)[req[r].subId] = req[r].pre.row

\* C18: a leave request's status is always Pending, approved or rejected, and a
\* complaint's status is always pending, resolved or dismissed.
C18_StatusVocabulary ==
    /\ \A i \in DOMAIN leave_requests :
          leave_requests[i].status \in {"Pending", "approved", "rejected"}
    /\ \A i \in DOMAIN complaints_suggestions :
          complaints_suggestions[i].status \in {"pending", "resolved", "dismissed"}

\* C19: an update-leave-request-status request by an admin for an existing leave
\* request with status 'approved' or 'rejected', whose UPDATE went through, has
\* updated the row, persisted a notification to the owner with role 'user', and
\* answered success.
C19_LeaveStatusNotifiesOwner ==
    \A r \in Slots :
        ( /\ req[r].op = "leave_status" /\ req[r].pc = "done"
          /\ req[r].newStatus \in {"approved", "rejected"}
          /\ req[r].pre.found /\ req[r].committed )
        => /\ leave_requests[req[r].subId].status = req[r].newStatus
           /\ leave_requests[req[r].subId].reviewed
           /\ req[r].status = 200
           /\ \E n \in notifications :
                 /\ n.kind = "review" /\ n.section = "leave-requests"
                 /\ n.about = req[r].subId
                 /\ n.recipient_id = req[r].pre.row.user_id /\ n.recipient_role = "user"

\* C20: in logbook grading and complaint review the answer agrees with the store:
\* success is answered exactly when the status update is persisted, also when the
\* notification to the submitter failed after the update.
C20_ResponseAgreesWithUpdate ==
    \A r \in Slots :
        (req[r].op \in {"grade", "complaint_review"} /\ req[r].pc = "done")
        => /\ (req[r].status = 200) <=> req[r].committed
           /\ (req[r].committed /\ req[r].errcode = "notification_insert")
              => req[r].status = 200


\* ------------------------------------------------------ broadcast message
\* the row the loop of send-notification inserts for one intern: no section and
\* no entity_id column is given; the link carries the message id
BroadcastNotification(u, senderId, messageId) ==
    [recipient_id |-> u, recipient_role |-> "user", sender_id |-> senderId,
     kind |-> "broadcast", section |-> NULL, entity_id |-> 0, link_id |-> messageId,
     is_read |-> FALSE, about |-> messageId]

\* isAuthenticated, isAdminOrSuperadmin and the two 400 guards
BroadcastBegin(r, c, action, title, body) ==
    /\ Idle(r)
    /\ nextMsgId <= MaxMsgs
    /\ LET q == [IdleReq EXCEPT !.op = "broadcast", !.client = c, !.session = sessions[c],
                                !.userId = sessions[c].user_id]
       IN Upd(r, IF ~IsAuthenticated(sessions[c]) THEN Finish(q, 401, "Not authenticated.")
                 ELSE IF ~IsAdminOrSuperadmin(sessions[c])
                 THEN Finish(q, 403, "Access denied: Admin privileges required.")
                 ELSE IF action # "broadcast_message"
                 THEN Finish(q, 400, "Invalid action for this route.")
                 ELSE IF Falsy(title) \/ Falsy(body)
                 THEN Finish(q, 400, "Title and body are required.")
                 ELSE [q EXCEPT !.pc = "connect"])
    /\ UNCHANGED <<tokvars, dbvars, subvars, sessions, outcomeMail>>

\* the catch block of send-notification answers 500 and issues no statement
BroadcastFailed(q) == Finish(Throw(q), 500, "Failed to send broadcast message.")

BroadcastConnect(r) ==
    /\ At(r, "broadcast", "connect")
    /\ \E ok \in BOOLEAN :
         Upd(r, IF ok THEN Connected(req[r], TRUE, "message") ELSE BroadcastFailed(req[r]))
    /\ UNCHANGED <<tokvars, dbvars, subvars, sessions, outcomeMail>>

\* INSERT INTO messages ... RETURNING id: no BEGIN was issued, the row is committed
BroadcastInsertMessage(r) ==
    /\ At(r, "broadcast", "message")
    /\ \E ok \in BOOLEAN :
         IF ok
         THEN /\ messages' = messages \cup {[id |-> nextMsgId, created_by |-> req[r].userId]}
              /\ nextMsgId' = nextMsgId + 1
              /\ Upd(r, [req[r] EXCEPT !.pc = "interns", !.subId = nextMsgId])
         ELSE /\ Upd(r, [BroadcastFailed(req[r]) EXCEPT !.errcode = "message_insert"])
              /\ UNCHANGED <<messages, nextMsgId>>
    /\ UNCHANGED <<tokvars, dbvars, subs, nextSubId, revvars, sessions, outcomeMail>>

\* SELECT user_id FROM users WHERE role = 'intern': the rows of table users
BroadcastSelectInterns(r) ==
    /\ At(r, "broadcast", "interns")
    /\ \E ok \in BOOLEAN :
         Upd(r, IF ~ok THEN BroadcastFailed(req[r])
                ELSE IF DOMAIN users = {}
                THEN Finish(req[r], 200, "Broadcast message sent to all interns.")
                ELSE [req[r] EXCEPT !.pc = "notify", !.todo = DOMAIN users])
    /\ UNCHANGED <<tokvars, dbvars, subvars, sessions, outcomeMail>>

\* one turn of for (const intern of interns.rows) await client.query(INSERT INTO
\* notifications ...), each committed on its own; after the last, the 200
BroadcastNotify(r) ==
    /\ At(r, "broadcast", "notify")
    /\ \E u \in req[r].todo, ok \in BOOLEAN :
         IF ok
         THEN /\ notifications' = notifications \cup
                    {BroadcastNotification(u, req[r].userId, req[r].subId)}
              /\ Upd(r, IF req[r].todo = {u}
                        THEN Finish(req[r], 200, "Broadcast message sent to all interns.")
                        ELSE [req[r] EXCEPT !.todo = @ \ {u}])
         ELSE /\ Upd(r, [BroadcastFailed(req[r]) EXCEPT !.errcode = "notification_insert"])
              /\ UNCHANGED notifications
    /\ UNCHANGED <<tokvars, users, admins, nextUserId, subvars, sessions, outcomeMail>>

\* Two interns have registered (one approved, one still pending); the browser holds
\* no session, an intern's, or an admin's.
BroadcastInit ==
    /\ users = [u \in {1, 2} |->
                  IF u = 1 THEN ApprovedRow(NewUserRow("i@x", "m1", Hash("secret2")), 1)
                  ELSE NewUserRow("a1@x", "m2", Hash("secret2"))]
    /\ admins = [a \in AdminIds |-> AdminRow(a)]
    /\ nextUserId = 3
    /\ notifications = {RegistrationNotification(a, u) : a \in AdminIds, u \in {1, 2}}
    /\ sessions \in [Clients -> {NoSession, SessionUser(1, "i@x", "intern")}
                                \cup {SessionUser(a, AdminEmail(a), AdminRole(a)) : a \in AdminIds}]
    /\ outcomeMail = [u \in UserIds |-> IF u = 1 THEN 1 ELSE 0]
    /\ subs = {}
    /\ nextSubId = [k \in SubmitOps |-> 1]
    /\ messages = {}
    /\ nextMsgId = 1
    /\ logbook_reports = <<>>
    /\ nextLogbookId = 1
    /\ leave_requests = <<>>
    /\ complaints_suggestions = <<>>
    /\ password_reset_tokens = <<>>
    /\ nextToken = 1
    /\ req = [r \in Slots |-> IdleReq]

BroadcastNext ==
    \/ \E c \in Clients, action \in {"broadcast_message", "other"}, t, b \in FieldValues :
          BroadcastBegin(SeqSlot, c, action, t, b)
    \/ BroadcastConnect(SeqSlot)
    \/ BroadcastInsertMessage(SeqSlot)
    \/ BroadcastSelectInterns(SeqSlot)
    \/ BroadcastNotify(SeqSlot)

BroadcastSpec == BroadcastInit /\ [][BroadcastNext]_vars

\* C10: a finished broadcast is all or nothing: answered with success, its message
\* row and one notification per intern are persisted; ended by a failed insert (of
\* the message or of a notification), neither its message row nor any notification
\* of it is.
C10_BroadcastAllOrNothing ==
    \A r \in Slots :
        (req[r].op = "broadcast" /\ req[r].pc = "done")
        => LET mine == {n \in notifications : n.kind = "broadcast" /\ n.about = req[r].subId}
               msg == {m \in messages : m.id = req[r].subId}
           IN IF req[r].status = 200
              THEN Cardinality(msg) = 1 /\ Cardinality(mine) = Cardinality(DOMAIN users)
              ELSE req[r].errcode \in {"message_insert", "notification_insert"}
                   => (msg = {} /\ mine = {})

\* ------------------------------------------- login over every stored record
\* a stored password that bcrypt did not produce (no '$2b$' prefix)
PlainPassword(pw) == <<"plain", pw>>
StoredPasswords == {Hash("secret1"), PlainPassword("secret1")}

\* The admins table holds its two rows, each with a bcrypt or a plain stored
\* password; the users table holds no row or one intern, pending, approved or
\* rejected, whose e-mail may equal an admin's.
LoginInit ==
    /\ admins \in {[a \in AdminIds |-> [AdminRow(a) EXCEPT !.password = h[a]]] :
                        h \in [AdminIds -> StoredPasswords]}
    /\ users \in {<<>>} \cup
          {[u \in {1} |-> row] :
              row \in UNION {{NewUserRow(e, "m1", h),
                              ApprovedRow(NewUserRow(e, "m1", h), 1),
                              RejectedRow(NewUserRow(e, "m1", h), NULL, 1)} :
                                 e \in Emails, h \in StoredPasswords}}
    /\ nextUserId = 2
    /\ notifications = {}
    /\ sessions = [c \in Clients |-> NoSession]
    /\ outcomeMail = [u \in UserIds |-> 0]
    /\ subs = {}
    /\ nextSubId = [k \in SubmitOps |-> 1]
    /\ messages = {}
    /\ nextMsgId = 1
    /\ logbook_reports = <<>>
    /\ nextLogbookId = 1
    /\ leave_requests = <<>>
    /\ complaints_suggestions = <<>>
    /\ password_reset_tokens = <<>>
    /\ nextToken = 1
    /\ req = [r \in Slots |-> IdleReq]

LoginNext ==
    \/ \E c \in Clients, e \in AdminEmails \cup FormEmails, p \in Passwords \cup {Missing} :
          LoginBegin(SeqSlot, c, e, p)
    \/ LoginConnect(SeqSlot)
    \/ LoginAdminQuery(SeqSlot)
    \/ LoginInternQuery(SeqSlot)

LoginSpec == LoginInit /\ [][LoginNext]_vars

\* the stored password is a bcrypt hash of the presented one
Verifies(q, row) == row.password[1] = "$2b$" /\ row.password[2] = q.password
Malformed(row) == row.password[1] # "$2b$"
AdminOf(q) == CHOOSE a \in DOMAIN admins : admins[a].email = q.email
InternOf(q) == CHOOSE u \in DOMAIN users : users[u].email = q.email
AdminFound(q) == \E a \in DOMAIN admins : admins[a].email = q.email
InternFound(q) == \E u \in DOMAIN users : users[u].email = q.email

\* the classification of a login by the stored records; internHash says whether a
\* malformed stored hash of the intern is a configuration error as well
LoginClass(q, internHash) ==
    IF AdminFound(q) /\ Malformed(admins[AdminOf(q)])
    THEN <<403, "Admin password hash is invalid. Contact support.">>
    ELSE IF AdminFound(q) /\ Verifies(q, admins[AdminOf(q)])
    THEN <<200, admins[AdminOf(q)].role>>
    ELSE IF internHash /\ InternFound(q) /\ Malformed(users[InternOf(q)])
    THEN <<403, "Intern password hash is invalid. Contact support.">>
    ELSE IF InternFound(q) /\ Verifies(q, users[InternOf(q)])
    THEN IF users[InternOf(q)].is_approved
            /\ users[InternOf(q)].approval_status = "approved"
         THEN <<200, "intern">>
         ELSE <<403, "pending_approval">>
    ELSE <<401, "Invalid credentials.">>

LoginAnswered(r) ==
    /\ req[r].op = "login" /\ req[r].pc \in {"admin", "intern"}
    /\ req'[r].pc = "done" /\ ~req'[r].threw

\* C30 as stated: a login the store answers is classified: admin found with a
\* malformed stored hash -> 403 configuration error; admin found and the password
\* verifies -> success with the admin's role; otherwise intern found and the
\* password verifies -> success if approved, else 403 'pending_approval'; in every
\* remaining case 401 'Invalid credentials.'.
C30_Original ==
    [][\A r \in Slots :
          LoginAnswered(r)
          => <<req'[r].status, req'[r].body>> = LoginClass(req[r], FALSE)]_vars

\* C30 amended: the same, with one more case before the intern's password is
\* verified: an intern found with a malformed stored hash is a configuration error
\* (403) too, not 401.  'pending_approval' is answered only when the intern's
\* password verifies, and a session is stored exactly on success.
C30_LoginClassification ==
    [][\A r \in Slots :
          LoginAnswered(r)
          => /\ <<req'[r].status, req'[r].body>> = LoginClass(req[r], TRUE)
             /\ req'[r].body = "pending_approval"
                => (InternFound(req[r]) /\ Verifies(req[r], users[InternOf(req[r])]))
             /\ (sessions' # sessions) => req'[r].status = 200]_vars

\* C30 witness: a login naming an intern whose stored password is no bcrypt hash,
\* and no admin, was answered 403 as a configuration error
C30_Witness ==
    \E r \in Slots :
        /\ req[r].op = "login" /\ req[r].pc = "done"
        /\ req[r].status = 403
        /\ req[r].body = "Intern password hash is invalid. Contact support."
        /\ ~AdminFound(req[r]) /\ InternFound(req[r])
        /\ Malformed(users[InternOf(req[r])])

\* ------------------------------------------------------ the connection pool
\* C22: a handler that took a client from the pool has released it when it ends,
\* on every exit path (success, early return, exception): a request that is not in
\* flight holds no client, and when no request is in flight no client is checked
\* out.
C22_ClientReleased ==
    /\ \A r \in Slots : Idle(r) => ~req[r].hasClient
    /\ (\A r \in Slots : Idle(r)) => Cardinality(CheckedOut) = 0

\* C22 witness: a request that had taken a client has ended, by success (a login
\* answered 200), by an early return (approve-user answered 404 after its SELECT)
\* or by an exception (approve-user answered 500 from its catch block)
C22_Witness ==
    \E r \in Slots :
        /\ req[r].pc = "done" /\ ~req[r].hasClient
        /\ \/ req[r].op = "login" /\ req[r].status = 200
           \/ req[r].op = "approve" /\ req[r].threw /\ req[r].status = 500
           \/ req[r].op = "approve" /\ req[r].status = 404

\* Submissions in flight together, one per request slot, sharing the pool.
PoolNext ==
    \E r \in Slots :
        \/ \E c \in Clients : ComplaintBegin(r, c, "text", "text", Absent, Absent, Absent, Absent)
        \/ \E c \in Clients : LeaveBegin(r, c, "text", 1, MaxDay, "text")
        \/ SubmitConnect(r)
        \/ SubmitBeginTx(r)
        \/ SubmitInsert(r)
        \/ NotifyAdmins(r)
        \/ NotifySender(r)
        \/ NotifyInsert(r)
        \/ SubmitCommit(r)
        \/ SubmitCatch(r)

PoolSpec == SubmitInit /\ [][PoolNext]_vars

\* C23: a submission request never waits for a second client while it holds one:
\* there is no state in which every client of the pool is held by a request that is
\* inside the admin fan-out, whose pool.query needs one more client.
C23_NoWaitWhileHolding ==
    ~( /\ Cardinality(CheckedOut) = PoolSize
       /\ \A r \in CheckedOut : req[r].op \in SubmitOps /\ req[r].pc \in NotifyPcs )

\* -------------------------------------------- paginated lists and projects
ListRoutes == {"view-interns", "logbooks", "complaints", "leave-requests",
               "get-projects", "pending-users", "accounts"}

\* req.query.page / req.query.limit / a route parameter: absent, a string that is
\* no number, or the decimal string of an integer
QueryInts == (0 - 1)..(MaxRows + 1)
QueryValues == {<<"absent", 0>>, <<"text", 0>>} \cup {<<"int", n>> : n \in QueryInts}

\* parseInt(x) || d: NaN and 0 are falsy, every other integer is kept
ParseIntOr(v, d) == IF v[1] = "int" /\ v[2] # 0 THEN v[2] ELSE d

\* the default of limit
DefaultLimit(route) ==
    IF route \in {"logbooks", "complaints", "leave-requests"} THEN 5 ELSE 10

\* the middleware in front of a list handler: 0 when the request passes, else the
\* status it is answered with.  pending-users is guarded by isAdminOrSuperadmin
\* alone and accounts by isSuperadmin alone.
ListGuard(route, session) ==
    IF route = "accounts"
    THEN IF session.role = "superadmin" THEN 0 ELSE 403
    ELSE IF route = "pending-users"
    THEN IF IsAdminOrSuperadmin(session) THEN 0 ELSE 403
    ELSE IF ~IsAuthenticated(session) THEN 401
    ELSE IF ~IsAdminOrSuperadmin(session) THEN 403
    ELSE 0

\* the rows of user_projects
Projects == {row \in subs : row.kind = "project"}

\* SELECT COUNT(*) ... of each list handler
ListTotal(route, userId) ==
    CASE route = "view-interns" -> Cardinality(DOMAIN users)
      [] route = "logbooks" ->
            Cardinality({i \in DOMAIN logbook_reports : logbook_reports[i].user_id = userId})
      [] route = "complaints" -> Cardinality(DOMAIN complaints_suggestions)
      [] route = "leave-requests" -> Cardinality(DOMAIN leave_requests)
      [] route = "get-projects" -> Cardinality(Projects)
      [] route = "pending-users" ->
            Cardinality({u \in DOMAIN users : users[u].approval_status = "pending"})
      [] route = "accounts" -> Cardinality(DOMAIN users)

\* Math.ceil(total / limit), for limit >= 1
Ceil(total, limit) == (total + limit - 1) \div limit

\* mutant: the quotient is rounded down
TotalPagesFloor(route, total, limit) == total \div limit

\* total_pages of the response: Math.ceil(totalCount / limit), and
\* Math.max(1, Math.ceil(total / limit)) in accounts
TotalPages(route, total, limit) ==
    IF route = "accounts" /\ Ceil(total, limit) < 1 THEN 1 ELSE Ceil(total, limit)

\* mutant: a page past the end is answered with the first rows
PageRowsClamped(total, limit, offset) == IF total < limit THEN total ELSE limit

\* the number of rows SELECT ... LIMIT limit OFFSET offset returns from total rows
PageRows(total, limit, offset) ==
    IF offset >= total THEN 0
    ELSE IF total - offset < limit THEN total - offset ELSE limit

\* A paginated list handler, from the middleware to the response.  A negative
\* LIMIT or OFFSET is refused by the store (SQLSTATE 2201W / 2201X); every error
\* is answered 500 by the catch block.
ListRequest(r, c, route, page, limit, userId) ==
    /\ Idle(r)
    /\ LET p == ParseIntOr(page, 1)
           l == ParseIntOr(limit, DefaultLimit(route))
           offset == (p - 1) * l
           total == ListTotal(route, userId)
           q == [IdleReq EXCEPT !.op = route, !.client = c, !.session = sessions[c],
                                !.userId = userId,
                                !.list = [NoList EXCEPT !.page = p, !.limit = l,
                                                        !.offset = offset]]
       IN \E ok \in BOOLEAN :
            Upd(r, IF ListGuard(route, sessions[c]) # 0
                   THEN Finish(q, ListGuard(route, sessions[c]), "Access denied.")
                   ELSE IF ~ok
                   THEN Finish([Throw(q) EXCEPT !.errcode = "other"], 500, "Failed to fetch.")
                   ELSE IF l < 0
                   THEN Finish([Throw(q) EXCEPT !.errcode = "2201W"], 500, "Failed to fetch.")
                   ELSE IF offset < 0
                   THEN Finish([Throw(q) EXCEPT !.errcode = "2201X"], 500, "Failed to fetch.")
                   ELSE Finish([q EXCEPT !.list.rows = PageRows(total, l, offset),
                                         !.list.total_count = total,
                                         !.list.total_pages = TotalPages(route, total, l)],
                               200, "list"))
    /\ UNCHANGED <<tokvars, dbvars, subvars, sessions, outcomeMail>>

\* GET /download-project/:fileId: no middleware and no try/catch; a rejected
\* pool.query leaves the request unanswered
DownloadProject(r, c, fileId) ==
    /\ Idle(r)
    /\ LET q == [IdleReq EXCEPT !.op = "download-project", !.client = c,
                                !.session = sessions[c], !.subId = fileId[2]]
       IN \E ok \in BOOLEAN :
            Upd(r, IF fileId[1] # "int" THEN Finish(q, 400, "Invalid file ID")
                   ELSE IF ~ok THEN Finish(Throw(q), 0, "no_response")
                   ELSE IF ~\E row \in Projects : row.id = fileId[2]
                   THEN Finish(q, 404, "File not found")
                   ELSE Finish(q, 200, "file"))
    /\ UNCHANGED <<tokvars, dbvars, subvars, sessions, outcomeMail>>

\* the end of a delete handler once its DELETE ... RETURNING id has run: ROLLBACK
\* and 404 when no row matched, else COMMIT and 200; a statement that fails goes
\* to the catch block (ROLLBACK if a client is held, then 500)
Deleted(q, hit, connected, ok, rollbackOk) ==
    IF ~connected THEN Finish(Throw(q), 500, "Failed to delete project.")
    ELSE IF ~ok
    THEN IF rollbackOk THEN Finish(Throw(q), 500, "Failed to delete project.")
         ELSE Finish(Throw(q), 0, "no_response")
    ELSE IF hit = {} THEN Finish(q, 404, "Project not found.")
    ELSE Finish([q EXCEPT !.committed = TRUE], 200, "Project deleted successfully.")

\* DELETE /delete-project/:projectId of the admin routes:
\* DELETE FROM user_projects WHERE id = $1
DeleteProject(r, c, projectId) ==
    /\ Idle(r)
    /\ LET q == [IdleReq EXCEPT !.op = "delete-project", !.client = c,
                                !.session = sessions[c], !.subId = projectId[2]]
           hit == {row \in Projects : row.id = projectId[2]}
       IN \E connected, ok, rollbackOk \in BOOLEAN :
            LET end == IF ~IsAuthenticated(sessions[c])
                       THEN Finish(q, 401, "Not authenticated.")
                       ELSE IF ~IsAdminOrSuperadmin(sessions[c])
                       THEN Finish(q, 403, "Access denied: Admin privileges required.")
                       ELSE IF projectId[1] # "int"
                       THEN Finish(q, 400, "Invalid project ID.")
                       ELSE Deleted(q, hit, connected, ok, rollbackOk)
            IN /\ Upd(r, end)
               /\ subs' = IF end.committed THEN subs \ hit ELSE subs
    /\ UNCHANGED <<tokvars, dbvars, nextSubId, messages, nextMsgId, revvars, sessions, outcomeMail>>

\* DELETE /delete-project-file/:fileId of the intern routes:
\* DELETE FROM user_projects WHERE id = $1 AND user_id = $2, with the session's
\* user_id; the parameter is passed to the store as it came
DeleteProjectFile(r, c, fileId) ==
    /\ Idle(r)
    /\ LET q == [IdleReq EXCEPT !.op = "delete-project-file", !.client = c,
                                !.session = sessions[c], !.subId = fileId[2],
                                !.userId = sessions[c].user_id]
           hit == {row \in Projects : row.id = fileId[2] /\ row.owner = sessions[c].user_id}
       IN \E connected, ok, rollbackOk \in BOOLEAN :
            LET end == IF ~IsAuthenticated(sessions[c])
                       THEN Finish(q, 401, "Unauthorized. Please log in.")
                       ELSE Deleted(q, hit, connected, ok /\ fileId[1] = "int", rollbackOk)
            IN /\ Upd(r, end)
               /\ subs' = IF end.committed THEN subs \ hit ELSE subs
    /\ UNCHANGED <<tokvars, dbvars, nextSubId, messages, nextMsgId, revvars, sessions, outcomeMail>>

\* Every listed table holds the same number of rows, from none to MaxRows (users
\* at most MaxUsers, one approved and one pending); the browser holds no session,
\* an intern's, or an admin's.
ListInit ==
    \E n \in 0..MaxRows :
        /\ users = [u \in {u \in UserIds : u <= n} |->
                       IF u = 1 THEN ApprovedRow(NewUserRow("i@x", "m1", Hash("secret2")), 1)
                       ELSE NewUserRow("a1@x", "m2", Hash("secret1"))]
        /\ admins = [a \in AdminIds |-> AdminRow(a)]
        /\ nextUserId = MaxUsers + 1
        /\ notifications = {}
        /\ sessions \in [Clients -> {NoSession, SessionUser(1, "i@x", "intern")}
                                    \cup {SessionUser(a, AdminEmail(a), AdminRole(a)) : a \in AdminIds}]
        /\ outcomeMail = [u \in UserIds |-> 0]
        /\ subs = {[kind |-> "project", id |-> i, owner |-> 1] : i \in 1..n}
        /\ nextSubId = [k \in SubmitOps |-> IF k = "project" THEN n + 1 ELSE 1]
        /\ messages = {}
        /\ nextMsgId = 1
        /\ logbook_reports = [i \in 1..n |-> NewLogbookRow(1, 7 * i)]
        /\ nextLogbookId = n + 1
        /\ leave_requests = [i \in 1..n |-> [user_id |-> 1, status |-> "Pending",
                                              rejection_reason |-> NULL, reviewed |-> FALSE]]
        /\ complaints_suggestions = [i \in 1..n |-> [user_id |-> 1, status |-> "pending",
                                                      response |-> NULL, reviewed_by |-> 0,
                                                      reviewed |-> FALSE]]
        /\ password_reset_tokens = <<>>
    /\ nextToken = 1
    /\ req = [r \in Slots |-> IdleReq]

ListNext ==
    \/ \E c \in Clients, route \in ListRoutes, page, limit \in QueryValues :
          \E u \in IF route = "logbooks" THEN UserIds ELSE {0} :
             ListRequest(SeqSlot, c, route, page, limit, u)
    \/ \E c \in Clients, id \in QueryValues : DownloadProject(SeqSlot, c, id)
    \/ \E c \in Clients, id \in QueryValues : DeleteProject(SeqSlot, c, id)
    \/ \E c \in Clients, id \in QueryValues : DeleteProjectFile(SeqSlot, c, id)

ListSpec == ListInit /\ [][ListNext]_vars

\* a list request that passed the middleware and was answered with a page
Listed(r) == req[r].op \in ListRoutes /\ req[r].pc = "done" /\ req[r].status = 200

\* C24 as stated: every paginated list answers total_pages = ceil(total_count /
\* limit), the least number of pages of limit rows that hold total_count rows, for
\* every total_count >= 0 (0 included) and limit >= 1, accounts included.
C24_Original ==
    \A r \in Slots :
        Listed(r)
        => /\ req[r].list.limit >= 1
           /\ req[r].list.total_count = ListTotal(req[r].op, req[r].userId)
           /\ req[r].list.total_pages * req[r].list.limit >= req[r].list.total_count
           /\ (req[r].list.total_pages - 1) * req[r].list.limit < req[r].list.total_count

\* C24 amended: the same for every list but accounts with no row, which answers
\* total_pages = 1 (accounts answers max(1, ceil(total_count / limit))).
C24_TotalPages ==
    \A r \in Slots :
        Listed(r)
        => /\ req[r].list.limit >= 1
           /\ req[r].list.total_count = ListTotal(req[r].op, req[r].userId)
           /\ IF req[r].op = "accounts" /\ req[r].list.total_count = 0
              THEN req[r].list.total_pages = 1
              ELSE /\ req[r].list.total_pages * req[r].list.limit
                         >= req[r].list.total_count
                   /\ (req[r].list.total_pages - 1) * req[r].list.limit
                         < req[r].list.total_count

\* C24 witness: accounts listed with no users row and answered total_pages = 1
C24_Witness ==
    \E r \in Slots :
        /\ Listed(r)
        /\ req[r].op = "accounts" /\ req[r].list.total_count = 0
        /\ req[r].list.total_pages = 1 /\ req[r].list.rows = 0

\* C25: a list request for a page past the last one is answered 200 with no row,
\* and with the total_count of the table and the total_pages every request with
\* that limit gets.
C25_PagePastEnd ==
    \A r \in Slots :
        (Listed(r) /\ req[r].list.page > req[r].list.total_pages)
        => /\ req[r].list.rows = 0
           /\ req[r].list.total_count = ListTotal(req[r].op, req[r].userId)
           /\ req[r].list.total_pages
                 = TotalPages(req[r].op, req[r].list.total_count, req[r].list.limit)

\* C25 witness: page 3 of a list of two rows, one row a page
C25_Witness ==
    \E r \in Slots :
        /\ Listed(r)
        /\ req[r].list.total_count = 2 /\ req[r].list.limit = 1
        /\ req[r].list.total_pages = 2 /\ req[r].list.page = 3
        /\ req[r].list.rows = 0

\* C26: whatever page and limit a list request carries (absent, no number, zero,
\* negative), the page and the limit used are at least 1, the offset is at least 0
\* and, the store answering its statements, the request is not answered with
\* an error.
C26_QueryCoerced ==
    \A r \in Slots :
        ( /\ req[r].op \in ListRoutes /\ req[r].pc = "done"
          /\ req[r].status \notin {401, 403} /\ req[r].errcode # "other" )
        => /\ req[r].status = 200
           /\ req[r].list.page >= 1 /\ req[r].list.limit >= 1
           /\ req[r].list.offset >= 0

\* the handlers that answer a request by reading or deleting application data
ReadOps == ListRoutes \cup {"download-project", "delete-project", "delete-project-file"}

\* C27: a request without a session to a protected route is answered 401 (and the
\* handler, which reads or writes application data, is not run).
C27_NoSession401 ==
    [][\A r \in Slots :
          ( /\ Idle(r) /\ req'[r] # req[r] /\ req'[r].op \in ReadOps
            /\ sessions[req'[r].client] = NoSession )
          => (req'[r].pc = "done" /\ req'[r].status = 401)]_vars

\* C29: a project row leaves user_projects only through the admins' delete-project.
C29_OnlyAdminDeletes ==
    [][(\E row \in Projects : row \notin subs')
          => \E r \in Slots : req'[r].op = "delete-project" /\ req'[r].status = 200]_vars

\* ------------------------------------------------- login and the session
\* C31: a step of a login request changes the session store exactly when it answers
\* 200, and then the session of that browser holds the authenticated principal's id,
\* e-mail and role; no step of a login request (400, 401, 403, 500 or 200) changes
\* an admins or users row.
C31_SessionIffSuccess ==
    [][\A r \in Slots :
          (req'[r].op = "login" /\ req'[r] # req[r])
          => /\ users' = users /\ admins' = admins
             /\ (req'[r].pc = "done" /\ req'[r].status = 200)
                => /\ sessions'[req'[r].client].user_id = req'[r].userId
                   /\ sessions'[req'[r].client].email = req'[r].email
                   /\ sessions'[req'[r].client].role = req'[r].body
                   /\ req'[r].body \in {"intern", "admin", "superadmin"}
             /\ ~(req'[r].pc = "done" /\ req'[r].status = 200)
                => sessions' = sessions]_vars

\* C31 witness: a login was refused (401 or 403) while the browser kept the session
\* an earlier successful login had stored
C31_Witness ==
    \E r \in Slots :
        /\ req[r].op = "login" /\ req[r].pc = "done" /\ req[r].status \in {401, 403}
        /\ sessions[req[r].client] # NoSession

\* C32: every notification a broadcast persisted has section 'messages' and an
\* entity_id that is the id of the message that broadcast created, the two columns
\* the intern notification listing joins messages on.
C32_BroadcastJoinsMessage ==
    \A n \in notifications :
        n.kind = "broadcast"
        => /\ n.section = "messages"
           /\ n.entity_id = n.about
           /\ \E m \in messages : m.id = n.entity_id

\* ------------------------------------------------ the outcome of reject-user
\* the committing step of a reject-user of slot r
RejectCommitted(r) ==
    req[r].op = "reject" /\ req[r].pc = "commit" /\ req'[r].committed

\* the two outcomes of reject-user, and their permanence: a soft rejection keeps the
\* row with approval_status 'rejected', the given reason and is_approved false; a
\* hard one removes the row; a rejected row never changes again, and a row that
\* appears is a registration's, under the id last drawn from the serial, so that a
\* removed id never comes back
RejectOutcome ==
    /\ \A r \in Slots :
          RejectCommitted(r)
          => IF req[r].deleteUser
             THEN req[r].userId \notin DOMAIN users'
             ELSE /\ req[r].userId \in DOMAIN users'
                  /\ users'[req[r].userId].approval_status = "rejected"
                  /\ users'[req[r].userId].rejection_reason = req[r].reason
                  /\ ~users'[req[r].userId].is_approved
                  /\ ~users[req[r].userId].is_approved
    /\ \A u \in DOMAIN users :
          users[u].approval_status = "rejected"
          => (u \in DOMAIN users' /\ users'[u] = users[u])
    /\ \A u \in DOMAIN users' \ DOMAIN users :
          /\ u = nextUserId - 1
          /\ \E r \in Slots : req[r].op = "register" /\ req[r].wUser.id = u

\* a login of slot r is answered 200 in this step
LoginSucceeds(r) ==
    req[r].op = "login" /\ req[r].pc \in {"admin", "intern"}
    /\ req'[r].pc = "done" /\ req'[r].status = 200

\* C33 as stated: reject-user has the two outcomes, they are permanent, and a login
\* with the e-mail and password of a rejected intern never gets a session.
C33_Original ==
    [][/\ RejectOutcome
       /\ \A r \in Slots :
             LoginSucceeds(r)
             => \A u \in InternPresented(req[r]) : users[u].approval_status # "rejected"]_vars

\* C33 amended: the same, the login part being: no login gets a session for a
\* rejected or removed intern record (a session with role 'intern' is for an
\* approved record), and a login with a rejected intern's e-mail and password that
\* do not also authenticate an admin gets no session at all.
C33_RejectIsFinal ==
    [][/\ RejectOutcome
       /\ \A r \in Slots :
             LoginSucceeds(r)
             => /\ req'[r].body = "intern"
                   => /\ req'[r].userId \in DOMAIN users
                      /\ users[req'[r].userId].approval_status = "approved"
                /\ ~AdminPresented(req[r])
                   => \A u \in InternPresented(req[r]) :
                         users[u].approval_status # "rejected"]_vars

\* C33 witness: a login with the e-mail and password of a soft-rejected intern, whose
\* row holds the reason given, was refused
C33_Witness ==
    \E r \in Slots, u \in DOMAIN users :
        /\ users[u].approval_status = "rejected" /\ users[u].rejection_reason = "incomplete"
        /\ ~users[u].is_approved
        /\ req[r].op = "login" /\ req[r].pc = "done" /\ req[r].status = 403
        /\ req[r].email = users[u].email /\ req[r].userId = u

\* ------------------------------------------------- duplicate registrations
\* C34: a registration whose e-mail or matric number is on a users row is answered
\* 409 by the duplicate check (the store answering it) with no row written, no
\* notification persisted and no admin mailed; and no two users rows share an
\* e-mail or a matric number.
C34_DuplicateRejected ==
    [][/\ \A u, v \in DOMAIN users' :
             u # v => /\ users'[u].email # users'[v].email
                      /\ users'[u].matric_number # users'[v].matric_number
       /\ \A r \in Slots :
             ( /\ req[r].op = "register" /\ req[r].pc = "check" /\ ~req'[r].threw
               /\ \E i \in DOMAIN users : \/ users[i].email = req[r].email
                                          \/ users[i].matric_number = req[r].matric )
             => /\ req'[r].pc = "done" /\ req'[r].status = 409
                /\ users' = users /\ notifications' = notifications
                /\ nextUserId' = nextUserId
                /\ req'[r].mailed = {} /\ ~req'[r].committed]_vars

\* C34 witness: a registration with the e-mail of a stored intern row was answered
\* 409
C34_Witness ==
    \E r \in Slots :
        /\ req[r].op = "register" /\ req[r].pc = "done" /\ req[r].status = 409
        /\ req[r].mailed = {} /\ ~req[r].committed
        /\ \E i \in DOMAIN users : users[i].email = req[r].email

\* ------------------------------------------------ the complaint form guard
\* C35: a submit-complaint-suggestion request of a logged-in user that carries
\* neither a subject with a message nor any complaint field (the fields empty or
\* absent from the body) is answered 400 and writes nothing.
C35_EmptyComplaintRejected ==
    \A r \in Slots :
        (req[r].op = "complaint" /\ ~req[r].given /\ req[r].status # 401)
        => /\ req[r].pc = "done" /\ req[r].status = 400
           /\ ~req[r].hasClient /\ req[r].wSub = NoWrite /\ req[r].subId = 0

\* ------------------------------------------------- the logbook time window
\* C36: a submit-logbook-report request that carries its required fields goes past
\* the time guard exactly when it arrives on a Monday before 9:00, and is answered
\* 403 at any other weekday and hour.
C36_MondayBeforeNine ==
    \A r \in Slots :
        (req[r].op = "logbook" /\ req[r].pc = "connect"
            /\ req[r].body # "Missing required fields")
        => (req[r].status = 403 <=> ~req[r].inWindow)

\* ------------------------------------------------ marking notifications read
MarkOps == {"user-mark-read", "user-mark-all-read", "admin-mark-read"}

\* UPDATE notifications SET is_read = TRUE
MarkedRead(n) == [n EXCEPT !.is_read = TRUE]

\* PUT /notifications/:id/read of the intern routes (isAuthenticated): UPDATE ...
\* WHERE notification_id = $1 AND recipient_id = $2 AND recipient_role = 'user',
\* with the session's user_id; n is the row the id names
UserMarkRead(r, c, n) ==
    /\ Idle(r)
    /\ LET q == [IdleReq EXCEPT !.op = "user-mark-read", !.client = c,
                                !.session = sessions[c], !.userId = sessions[c].user_id]
           hit == n.recipient_id = sessions[c].user_id /\ n.recipient_role = "user"
       IN \E ok \in BOOLEAN :
            IF ~IsAuthenticated(sessions[c])
            THEN /\ Upd(r, Finish(q, 401, "Unauthorized. Please log in."))
                 /\ UNCHANGED notifications
            ELSE IF ~ok
            THEN /\ Upd(r, Finish(Throw(q), 500, "Failed to mark notification as read."))
                 /\ UNCHANGED notifications
            ELSE IF ~hit
            THEN /\ Upd(r, Finish(q, 404, "Notification not found or not authorized."))
                 /\ UNCHANGED notifications
            ELSE /\ Upd(r, Finish(q, 200, "Notification marked as read."))
                 /\ notifications' = (notifications \ {n}) \cup {MarkedRead(n)}
    /\ UNCHANGED <<tokvars, users, admins, nextUserId, subvars, sessions, outcomeMail>>

\* PUT /notifications/mark-all-read of the intern routes (isAuthenticated): UPDATE
\* ... WHERE recipient_id = $1 AND recipient_role = 'user' AND is_read = false
UserMarkAllRead(r, c) ==
    /\ Idle(r)
    /\ LET q == [IdleReq EXCEPT !.op = "user-mark-all-read", !.client = c,
                                !.session = sessions[c], !.userId = sessions[c].user_id]
       IN \E ok \in BOOLEAN :
            IF ~IsAuthenticated(sessions[c])
            THEN /\ Upd(r, Finish(q, 401, "Unauthorized. Please log in."))
                 /\ UNCHANGED notifications
            ELSE IF ~ok
            THEN /\ Upd(r, Finish(Throw(q), 500, "Failed to mark notifications as read."))
                 /\ UNCHANGED notifications
            ELSE /\ Upd(r, Finish(q, 200, "All notifications marked as read successfully."))
                 /\ notifications' =
                       {IF /\ n.recipient_id = sessions[c].user_id
                           /\ n.recipient_role = "user" /\ ~n.is_read
                        THEN MarkedRead(n) ELSE n : n \in notifications}
    /\ UNCHANGED <<tokvars, users, admins, nextUserId, subvars, sessions, outcomeMail>>

\* PUT /notifications/:id/read of the admin routes (isAuthenticated,
\* isAdminOrSuperadmin): UPDATE ... WHERE notification_id = $1 AND recipient_id = $2
\* AND recipient_role = 'admin'
AdminMarkRead(r, c, n) ==
    /\ Idle(r)
    /\ LET q == [IdleReq EXCEPT !.op = "admin-mark-read", !.client = c,
                                !.session = sessions[c], !.userId = sessions[c].user_id]
           hit == n.recipient_id = sessions[c].user_id /\ n.recipient_role = "admin"
       IN \E ok \in BOOLEAN :
            IF ~IsAuthenticated(sessions[c])
            THEN /\ Upd(r, Finish(q, 401, "Not authenticated."))
                 /\ UNCHANGED notifications
            ELSE IF ~IsAdminOrSuperadmin(sessions[c])
            THEN /\ Upd(r, Finish(q, 403, "Access denied: Admin privileges required."))
                 /\ UNCHANGED notifications
            ELSE IF ~ok
            THEN /\ Upd(r, Finish(Throw(q), 500, "Failed to mark admin notification as read."))
                 /\ UNCHANGED notifications
            ELSE IF ~hit
            THEN /\ Upd(r, Finish(q, 404, "Notification not found or not authorized for this admin."))
                 /\ UNCHANGED notifications
            ELSE /\ Upd(r, Finish(q, 200, "Notification marked as read."))
                 /\ notifications' = (notifications \ {n}) \cup {MarkedRead(n)}
    /\ UNCHANGED <<tokvars, users, admins, nextUserId, subvars, sessions, outcomeMail>>

\* Two approved interns and the admins; every message was broadcast to the interns
\* and the admins were notified of the first intern's registration; nothing is read.
\* The browser holds no session, an intern's, or an admin's.
MarkInit ==
    /\ users = [u \in UserIds |->
                  ApprovedRow(NewUserRow(IF u = 1 THEN "i@x" ELSE "a1@x",
                                         IF u = 1 THEN "m1" ELSE "m2",
                                         Hash("secret2")), 1)]
    /\ admins = [a \in AdminIds |-> AdminRow(a)]
    /\ nextUserId = MaxUsers + 1
    /\ notifications = {RegistrationNotification(a, 1) : a \in AdminIds}
                          \cup {BroadcastNotification(u, 1, m) : u \in UserIds, m \in 1..MaxMsgs}
    /\ sessions \in [Clients -> {NoSession}
                                \cup {SessionUser(u, users[u].email, "intern") : u \in UserIds}
                                \cup {SessionUser(a, AdminEmail(a), AdminRole(a)) : a \in AdminIds}]
    /\ outcomeMail = [u \in UserIds |-> 1]
    /\ subs = {}
    /\ nextSubId = [k \in SubmitOps |-> 1]
    /\ messages = {[id |-> m, created_by |-> 1] : m \in 1..MaxMsgs}
    /\ nextMsgId = MaxMsgs + 1
    /\ logbook_reports = <<>>
    /\ nextLogbookId = 1
    /\ leave_requests = <<>>
    /\ complaints_suggestions = <<>>
    /\ password_reset_tokens = <<>>
    /\ nextToken = 1
    /\ req = [r \in Slots |-> IdleReq]

MarkNext ==
    \/ \E c \in Clients, n \in notifications : UserMarkRead(SeqSlot, c, n)
    \/ \E c \in Clients : UserMarkAllRead(SeqSlot, c)
    \/ \E c \in Clients, n \in notifications : AdminMarkRead(SeqSlot, c, n)

MarkSpec == MarkInit /\ [][MarkNext]_vars

\* the recipient_role under which a session's principal receives notifications
RecipientRoleOf(session) == IF session.role = "intern" THEN "user" ELSE "admin"

\* C37: no notification is deleted and is_read only goes from false to true; a
\* mark-read or mark-all-read request changes only notifications whose recipient is
\* the principal of its session; and a mark-all-read that follows a successful
\* mark-all-read of the same session changes nothing.
C37_MarkReadOwnOnly ==
    [][/\ \A n \in notifications :
             n \in notifications' \/ (~n.is_read /\ MarkedRead(n) \in notifications')
       /\ Cardinality(notifications') = Cardinality(notifications)
       /\ \A r \in Slots :
             (req'[r] # req[r] /\ req'[r].op \in MarkOps)
             => /\ \A n \in notifications \ notifications' :
                      /\ n.recipient_id = sessions[req'[r].client].user_id
                      /\ n.recipient_role = RecipientRoleOf(sessions[req'[r].client])
                /\ ( /\ req[r].op = "user-mark-all-read" /\ req[r].status = 200
                     /\ req'[r].op = "user-mark-all-read" )
                   => notifications' = notifications]_vars

\* ------------------------------------------------ registering an admin
NewAdminEmail == "n@x"
RoleValues == {Absent, "admin", "superadmin", "intern"}

\* isSuperadmin of routes/superadmin.js: req.session?.user?.role === 'superadmin'
IsSuperadmin(session) == session.role = "superadmin"

\* isSuperadmin of routes/admin.js: req.user && req.user.role === 'superadmin';
\* nothing in the application assigns req.user, so req.user is undefined
ReqUserIsSuperadmin(session) == FALSE

\* const { ..., role = 'admin' } = req.body
RoleOrDefault(role) == IF role = Absent THEN "admin" ELSE role

\* a column the INSERT does not name and the table lets be NULL
NullPassword == <<NULL, Missing>>

\* INSERT INTO admins (email, password_hash, first_name, last_name, role): the hash
\* goes to password_hash; the password column, which login reads, is not named
AdminRowByPasswordHash(email, hashed, role) ==
    [email |-> email, password |-> NullPassword, password_hash |-> hashed, role |-> role]

\* INSERT INTO admins (first_name, last_name, email, password, role)
AdminRowByPassword(email, hashed, role) ==
    [email |-> email, password |-> hashed, role |-> role]

NextAdminId == Cardinality(DOMAIN admins) + 1

\* POST /api/superadmin/register-admin.  The admins table is not part of the
\* source: where it has no password_hash column, or password is NOT NULL, the
\* INSERT raises (stored = FALSE); otherwise the row is stored with password NULL.
RegisterAdmin(r, c, email, password, names, role) ==
    /\ Idle(r)
    /\ LET q == [IdleReq EXCEPT !.op = "register-admin", !.client = c,
                                !.session = sessions[c], !.email = email,
                                !.password = password]
       IN \E connected \in BOOLEAN, ok \in BOOLEAN, stored \in BOOLEAN :
            IF ~IsSuperadmin(sessions[c])
            THEN /\ Upd(r, Finish(q, 403, "Access denied: Superadmin privileges required."))
                 /\ UNCHANGED admins
            ELSE IF email = Missing \/ password = Missing \/ ~names
            THEN /\ Upd(r, Finish(q, 400, "Email, password, first name, and last name are required."))
                 /\ UNCHANGED admins
            ELSE IF RoleOrDefault(role) \notin {"admin", "superadmin"}
            THEN /\ Upd(r, Finish(q, 400, "Invalid role specified for new admin."))
                 /\ UNCHANGED admins
            ELSE IF ~connected \/ ~ok
            THEN /\ Upd(r, Finish(Throw(q), 500, "Internal server error during admin registration."))
                 /\ UNCHANGED admins
            ELSE IF ByEmail(admins, email) # {}
            THEN /\ Upd(r, Finish(q, 409, "Admin with this email already exists."))
                 /\ UNCHANGED admins
            ELSE IF ~stored
            THEN /\ Upd(r, Finish(Throw(q), 500, "Internal server error during admin registration."))
                 /\ UNCHANGED admins
            ELSE /\ Upd(r, Finish(q, 201, "Admin registered successfully."))
                 /\ admins' = admins @@
                       (NextAdminId :> AdminRowByPasswordHash(email, Hash(password),
                                                              RoleOrDefault(role)))
    /\ UNCHANGED <<tokvars, users, nextUserId, notifications, subvars, sessions, outcomeMail>>

\* POST /api/admin/register (isAuthenticated, isSuperadmin of routes/admin.js)
AdminRegister(r, c, email, password, names, role) ==
    /\ Idle(r)
    /\ LET q == [IdleReq EXCEPT !.op = "admin-register", !.client = c,
                                !.session = sessions[c], !.email = email,
                                !.password = password]
       IN \E connected \in BOOLEAN, ok \in BOOLEAN :
            IF ~IsAuthenticated(sessions[c])
            THEN /\ Upd(r, Finish(q, 401, "Not authenticated."))
                 /\ UNCHANGED admins
            ELSE IF ~ReqUserIsSuperadmin(sessions[c])
            THEN /\ Upd(r, Finish(q, 403, "Access denied. Only superadmins can perform this action."))
                 /\ UNCHANGED admins
            ELSE IF email = Missing \/ password = Missing \/ ~names \/ Falsy(role)
            THEN /\ Upd(r, Finish(q, 400, "All required fields must be filled."))
                 /\ UNCHANGED admins
            ELSE IF role \notin {"admin", "superadmin"}
            THEN /\ Upd(r, Finish(q, 400, "Invalid role specified."))
                 /\ UNCHANGED admins
            ELSE IF password = ShortPw
            THEN /\ Upd(r, Finish(q, 400, "Password should be at least 6 characters."))
                 /\ UNCHANGED admins
            ELSE IF ~connected \/ ~ok
            THEN /\ Upd(r, Finish(Throw(q), 500, "Internal server error during registration."))
                 /\ UNCHANGED admins
            ELSE IF ByEmail(admins, email) # {}
            THEN /\ Upd(r, Finish(q, 409, "Email already registered as an admin."))
                 /\ UNCHANGED admins
            ELSE /\ Upd(r, Finish(q, 201, "Admin registered successfully!"))
                 /\ admins' = admins @@
                       (NextAdminId :> AdminRowByPassword(email, Hash(password), role))
    /\ UNCHANGED <<tokvars, users, nextUserId, notifications, subvars, sessions, outcomeMail>>

\* the seeded admins, no intern, and a browser that holds no session or the
\* session of a seeded admin
AdminRegInit ==
    /\ users = <<>>
    /\ admins = [a \in AdminIds |-> AdminRow(a)]
    /\ nextUserId = 1
    /\ notifications = {}
    /\ sessions \in [Clients -> {NoSession}
                                \cup {SessionUser(a, AdminEmail(a), AdminRole(a)) : a \in AdminIds}]
    /\ outcomeMail = [u \in UserIds |-> 0]
    /\ subs = {}
    /\ nextSubId = [k \in SubmitOps |-> 1]
    /\ messages = {}
    /\ nextMsgId = 1
    /\ logbook_reports = <<>>
    /\ nextLogbookId = 1
    /\ leave_requests = <<>>
    /\ complaints_suggestions = <<>>
    /\ password_reset_tokens = <<>>
    /\ nextToken = 1
    /\ req = [r \in Slots |-> IdleReq]

AdminRegNext ==
    \/ \E c \in Clients, e \in {NewAdminEmail, AdminEmail(1), Missing},
          p \in Passwords \cup {Missing}, names \in BOOLEAN, role \in RoleValues :
          RegisterAdmin(SeqSlot, c, e, p, names, role)
    \/ \E c \in Clients, e \in {NewAdminEmail, AdminEmail(1), Missing},
          p \in Passwords \cup {Missing, ShortPw}, names \in BOOLEAN, role \in RoleValues :
          AdminRegister(SeqSlot, c, e, p, names, role)
    \/ \E c \in Clients, e \in {NewAdminEmail, AdminEmail(1)}, p \in Passwords :
          LoginBegin(SeqSlot, c, e, p)
    \/ LoginConnect(SeqSlot)
    \/ LoginAdminQuery(SeqSlot)
    \/ LoginInternQuery(SeqSlot)

AdminRegSpec == AdminRegInit /\ [][AdminRegNext]_vars

\* the admins a registration stored, with the password each was registered with
Registered == DOMAIN admins \ AdminIds
RegisteredHash(a) ==
    IF "password_hash" \in DOMAIN admins[a] THEN admins[a].password_hash
    ELSE admins[a].password

\* C38: a superadmin session can register an admin, and the registered admin can
\* log in: a well-formed registration by a superadmin for an unused e-mail that
\* meets no database failure is answered 201 on both routes, and a login with the
\* e-mail and password of a registered admin that the store answers succeeds with
\* the registered role.
C38_RegisteredAdminLogsIn ==
    [][/\ \A r \in Slots :
            ( /\ req'[r] # req[r] /\ req'[r].op \in {"register-admin", "admin-register"}
              /\ sessions[req'[r].client].role = "superadmin"
              /\ req'[r].status \notin {400, 409} /\ ~req'[r].threw )
            => req'[r].status = 201
       /\ \A r \in Slots, a \in Registered :
            ( /\ req[r].op = "login" /\ req[r].pc = "admin" /\ req'[r].pc # "admin"
              /\ ~req'[r].threw
              /\ req[r].email = admins[a].email
              /\ Compare(req[r].password, RegisteredHash(a)) )
            => /\ req'[r].pc = "done" /\ req'[r].status = 200
               /\ req'[r].body = admins[a].role
               /\ sessions'[req[r].client] = SessionUser(a, admins[a].email, admins[a].role)]_vars

\* --------------------------- sessions against overlapping review requests
ConcLogin(r) ==
    \/ \E c \in Clients, e \in FormEmails, p \in Passwords : LoginBegin(r, c, e, p)
    \/ LoginConnect(r)
    \/ LoginAdminQuery(r)
    \/ LoginInternQuery(r)

\* the pending intern of ConcInit; approve-user, reject-user and login requests
\* overlap, each on its own pool client
SessionNext == \E r \in Slots : ConcApprove(r) \/ ConcReject(r) \/ ConcLogin(r)

SessionSpec == ConcInit /\ [][SessionNext]_vars

\* C39: every session with role 'intern' refers to an intern record that exists
\* and whose approval_status is 'approved'.
C39_InternSessionApproved ==
    \A c \in Clients :
        sessions[c].role = "intern"
        => /\ sessions[c].user_id \in DOMAIN users
           /\ users[sessions[c].user_id].approval_status = "approved"

\* ------------------------------------------------ password reset tokens
MaxTokens == 2
MinResetPasswordLen == 8
Tokens == 1..MaxTokens
NewPasswords == {"newpass1", "newpass2"}
ResetOps == {"forgot", "reset"}

\* INSERT INTO password_reset_tokens (user_id, token, expires_at); used defaults to
\* FALSE; expired stands for new Date() > expires_at
TokenRow(userId) == [user_id |-> userId, used |-> FALSE, expired |-> FALSE]

\* UPDATE password_reset_tokens SET used = TRUE WHERE user_id = $1 AND used = FALSE
InvalidateTokens(tbl, userId) ==
    [t \in DOMAIN tbl |-> IF tbl[t].user_id = userId /\ ~tbl[t].used
                          THEN [tbl[t] EXCEPT !.used = TRUE] ELSE tbl[t]]

\* rowCount > 0 and not (used || new Date() > expires_at)
TokenUsable(tbl, t) == t \in DOMAIN tbl /\ ~tbl[t].used /\ ~tbl[t].expired

\* the requests that will still draw a token
DrawingToken == {s \in Slots : req[s].op = "forgot" /\ req[s].pc \in {"connect", "select"}}

\* POST /forgot-password: if (!email) 400
ForgotBegin(r, c, email) ==
    /\ Idle(r)
    /\ nextToken + Cardinality(DrawingToken) <= MaxTokens
    /\ LET q == [IdleReq EXCEPT !.op = "forgot", !.client = c, !.session = sessions[c],
                                !.email = email]
       IN Upd(r, IF email = Missing THEN Finish(q, 400, "Email is required.")
                 ELSE [q EXCEPT !.pc = "connect"])
    /\ UNCHANGED <<tokvars, dbvars, subvars, sessions, outcomeMail>>

ForgotConnect(r) ==
    /\ At(r, "forgot", "connect")
    /\ \E ok \in BOOLEAN :
         Upd(r, IF ok THEN Connected(req[r], TRUE, "select")
                ELSE Finish(Throw(req[r]), 500, "An internal server error occurred."))
    /\ UNCHANGED <<tokvars, dbvars, subvars, sessions, outcomeMail>>

\* SELECT user_id FROM users WHERE email = $1; then token = uuidv4()
ForgotSelect(r) ==
    /\ At(r, "forgot", "select")
    /\ \E ok \in BOOLEAN :
         LET found == ByEmail(users, req[r].email)
             u == CHOOSE i \in found : TRUE
         IN IF ~ok
            THEN /\ Upd(r, Finish(Throw(req[r]), 500, "An internal server error occurred."))
                 /\ UNCHANGED nextToken
            ELSE IF found = {}
            THEN /\ Upd(r, Finish(req[r], 200, "If an account with that email exists, a password reset link has been sent."))
                 /\ UNCHANGED nextToken
            ELSE /\ Upd(r, [req[r] EXCEPT !.pc = "invalidate", !.userId = u,
                                          !.token = nextToken])
                 /\ nextToken' = nextToken + 1
    /\ UNCHANGED <<password_reset_tokens, dbvars, subvars, sessions, outcomeMail>>

\* UPDATE password_reset_tokens SET used = TRUE WHERE user_id = $1 AND used = FALSE
ForgotInvalidate(r) ==
    /\ At(r, "forgot", "invalidate")
    /\ \E ok \in BOOLEAN :
         IF ok
         THEN /\ password_reset_tokens' = InvalidateTokens(password_reset_tokens, req[r].userId)
              /\ Upd(r, [req[r] EXCEPT !.pc = "insert"])
         ELSE /\ Upd(r, Finish(Throw(req[r]), 500, "An internal server error occurred."))
              /\ UNCHANGED password_reset_tokens
    /\ UNCHANGED <<nextToken, dbvars, subvars, sessions, outcomeMail>>

\* INSERT INTO password_reset_tokens (user_id, token, expires_at)
ForgotInsert(r) ==
    /\ At(r, "forgot", "insert")
    /\ \E ok \in BOOLEAN :
         IF ok
         THEN /\ password_reset_tokens' =
                    password_reset_tokens @@ (req[r].token :> TokenRow(req[r].userId))
              /\ Upd(r, [req[r] EXCEPT !.pc = "mail"])
         ELSE /\ Upd(r, Finish(Throw(req[r]), 500, "An internal server error occurred."))
              /\ UNCHANGED password_reset_tokens
    /\ UNCHANGED <<nextToken, dbvars, subvars, sessions, outcomeMail>>

\* sendPasswordResetEmail(email, resetLink) and the response
ForgotMail(r) ==
    /\ At(r, "forgot", "mail")
    /\ \E ok \in BOOLEAN :
         Upd(r, IF ok
                THEN Finish(req[r], 200, "If an account with that email exists, a password reset link has been sent.")
                ELSE Finish(Throw(req[r]), 500, "An internal server error occurred."))
    /\ UNCHANGED <<tokvars, dbvars, subvars, sessions, outcomeMail>>

\* POST /reset-password: the two 400 guards
ResetBegin(r, c, token, newPassword) ==
    /\ Idle(r)
    /\ LET q == [IdleReq EXCEPT !.op = "reset", !.client = c, !.session = sessions[c],
                                !.token = token, !.password = newPassword]
       IN Upd(r, IF token = 0 \/ newPassword = Missing
                 THEN Finish(q, 400, "Token and new password are required.")
                 ELSE IF newPassword = ShortPw
                 THEN Finish(q, 400, "Password must be at least 8 characters long.")
                 ELSE [q EXCEPT !.pc = "connect"])
    /\ UNCHANGED <<tokvars, dbvars, subvars, sessions, outcomeMail>>

ResetConnect(r) ==
    /\ At(r, "reset", "connect")
    /\ \E ok \in BOOLEAN :
         Upd(r, IF ok THEN Connected(req[r], TRUE, "select")
                ELSE Finish(Throw(req[r]), 500, "An internal server error occurred."))
    /\ UNCHANGED <<tokvars, dbvars, subvars, sessions, outcomeMail>>

\* SELECT user_id, expires_at, used FROM password_reset_tokens WHERE token = $1
ResetSelect(r) ==
    /\ At(r, "reset", "select")
    /\ \E ok \in BOOLEAN :
         Upd(r, IF ~ok
                THEN Finish(Throw(req[r]), 500, "An internal server error occurred.")
                ELSE IF ~TokenUsable(password_reset_tokens, req[r].token)
                THEN Finish(req[r], 400, "Invalid or expired token.")
                ELSE [req[r] EXCEPT !.pc = "write",
                                    !.userId = password_reset_tokens[req[r].token].user_id])
    /\ UNCHANGED <<tokvars, dbvars, subvars, sessions, outcomeMail>>

\* bcrypt.hash(newPassword, 10); UPDATE users SET password = $1 WHERE user_id = $2
ResetUpdate(r) ==
    /\ At(r, "reset", "write")
    /\ \E ok \in BOOLEAN :
         IF ok
         THEN /\ users' = [u \in DOMAIN users |->
                             IF u = req[r].userId
                             THEN [users[u] EXCEPT !.password = Hash(req[r].password)]
                             ELSE users[u]]
              /\ Upd(r, [req[r] EXCEPT !.pc = "mark"])
         ELSE /\ Upd(r, Finish(Throw(req[r]), 500, "An internal server error occurred."))
              /\ UNCHANGED users
    /\ UNCHANGED <<tokvars, admins, nextUserId, notifications, subvars, sessions, outcomeMail>>

\* UPDATE password_reset_tokens SET used = TRUE WHERE token = $1, and the response
ResetMarkUsed(r) ==
    /\ At(r, "reset", "mark")
    /\ \E ok \in BOOLEAN :
         IF ok
         THEN /\ password_reset_tokens' =
                    [t \in DOMAIN password_reset_tokens |->
                        IF t = req[r].token
                        THEN [password_reset_tokens[t] EXCEPT !.used = TRUE]
                        ELSE password_reset_tokens[t]]
              /\ Upd(r, Finish(req[r], 200, "Password has been reset successfully!"))
         ELSE /\ Upd(r, Finish(Throw(req[r]), 500, "An internal server error occurred."))
              /\ UNCHANGED password_reset_tokens
    /\ UNCHANGED <<nextToken, dbvars, subvars, sessions, outcomeMail>>

\* an hour passes after a token was stored
TokenExpires(t) ==
    /\ t \in DOMAIN password_reset_tokens
    /\ ~password_reset_tokens[t].expired
    /\ password_reset_tokens' = [password_reset_tokens EXCEPT ![t].expired = TRUE]
    /\ UNCHANGED <<nextToken, dbvars, subvars, sessions, outcomeMail, req>>

\* one approved intern, no token
ResetInit ==
    /\ users = [u \in {1} |-> ApprovedRow(NewUserRow("i@x", "m1", Hash("secret2")), 1)]
    /\ admins = [a \in AdminIds |-> AdminRow(a)]
    /\ nextUserId = 2
    /\ notifications = {}
    /\ sessions = [c \in Clients |-> NoSession]
    /\ outcomeMail = [u \in UserIds |-> 1]
    /\ subs = {}
    /\ nextSubId = [k \in SubmitOps |-> 1]
    /\ messages = {}
    /\ nextMsgId = 1
    /\ logbook_reports = <<>>
    /\ nextLogbookId = 1
    /\ leave_requests = <<>>
    /\ complaints_suggestions = <<>>
    /\ password_reset_tokens = <<>>
    /\ nextToken = 1
    /\ req = [r \in Slots |-> IdleReq]

Forgot(r) ==
    \/ \E c \in Clients, e \in {"i@x", "a1@x", Missing} : ForgotBegin(r, c, e)
    \/ ForgotConnect(r)
    \/ ForgotSelect(r)
    \/ ForgotInvalidate(r)
    \/ ForgotInsert(r)
    \/ ForgotMail(r)

Reset(r) ==
    \/ \E c \in Clients, t \in Tokens \cup {0}, p \in NewPasswords \cup {ShortPw, Missing} :
          ResetBegin(r, c, t, p)
    \/ ResetConnect(r)
    \/ ResetSelect(r)
    \/ ResetUpdate(r)
    \/ ResetMarkUsed(r)

\* requests overlap, each on its own pool client
ResetNext ==
    \/ \E r \in Slots : Forgot(r) \/ Reset(r)
    \/ \E t \in Tokens : TokenExpires(t)

ResetSpec == ResetInit /\ [][ResetNext]_vars

\* requests one at a time
SeqResetNext ==
    \/ Forgot(SeqSlot) \/ Reset(SeqSlot)
    \/ \E t \in Tokens : TokenExpires(t)

SeqResetSpec == ResetInit /\ [][SeqResetNext]_vars

Unused(tbl, u) == {t \in DOMAIN tbl : tbl[t].user_id = u /\ ~tbl[t].used}

\* a forgot-password request is answered and no other one is in progress
ForgotCompletes(r) ==
    /\ req[r].op = "forgot" /\ req[r].pc # "done" /\ req'[r].pc = "done"
    /\ \A s \in Slots \ {r} : ~(req[s].op = "forgot" /\ req[s].pc # "done")

\* C40: a token resets a password at most once: once a token is marked used (by a
\* successful reset-password with it, or by a later forgot-password of its user) no
\* reset-password with it changes a password, and such a request that the store
\* answers is answered 400 'Invalid or expired token.'; and when a forgot-password
\* completes each user has at most one unused token.
C40_TokenResetsOnce ==
    [][/\ \A r \in Slots :
            ForgotCompletes(r)
            => \A u \in DOMAIN users :
                  Cardinality(Unused(password_reset_tokens', u)) <= 1
       /\ \A r \in Slots :
            ( /\ req[r].op = "reset" /\ req[r].pc \notin {"idle", "done"}
              /\ req[r].token \in DOMAIN password_reset_tokens
              /\ password_reset_tokens[req[r].token].used )
            => /\ users' = users
               /\ (req'[r].pc = "done" /\ ~req'[r].threw)
                  => (req'[r].status = 400 /\ req'[r].body = "Invalid or expired token.")]_vars

====
